---- MODULE Spec2Model ----
(***************************************************************************)
(* Model of the resumable migration of src/lib/cloner.py:                  *)
(* ChannelCloner.clone_channel_complete, _copy_messages_complete and       *)
(* _send_message_with_media_download, together with the checkpoint file    *)
(* they read, write and delete.                                            *)
(*                                                                         *)
(* One process at a time runs clone_channel_complete for one source and    *)
(* one destination title.  The process can be terminated at every step     *)
(* (Kill); the checkpoint file and the destination containers survive.     *)
(*                                                                         *)
(* Failures of the environment are those the code has a handler for:       *)
(* remote calls that raise (create, get_entity, listing, download, send),  *)
(* a checkpoint file that does not parse, and an os.remove that fails.     *)
(* A save is two steps, the truncating open and the dump, because the      *)
(* process can be terminated between them.                                 *)
(*                                                                         *)
(* Further specifications over the same variables, each leaving the        *)
(* variables of the others as they are at the start:                       *)
(*   KeySpec       the checkpoint file name of clone_channel_complete for  *)
(*                 two destination titles of one source                    *)
(*   TransferSpec  clone_channel with _copy_messages / _process_messages / *)
(*                 _send_single_message / _handle_message_error, and the   *)
(*                 loop of _copy_messages_complete, item by item with the  *)
(*                 content of every destination send                       *)
(*   MediaSpec     MediaHandler.download_and_send_media of                 *)
(*                 src/lib/media_handler.py with its two retry loops       *)
(*   RelatedSpec   the classification of one dialog in                     *)
(*                 ChannelCloner._find_related_channels                    *)
(*   ProgressSpec  MediaDownloader.download_dialog_media of                *)
(*                 src/lib/downloader.py with its progress file            *)
(*   FormatSpec    MediaHandler._format_size                               *)
(*   SuperSpec     ChannelCloner.clone_supergroup_with_channels with the   *)
(*                 cloning of the related channels and their announcement  *)
(***************************************************************************)
EXTENDS Integers, FiniteSets, Sequences, TLC

(* ------------------------------ bounds --------------------------------- *)
\* number of collected source items (len(messages)), indices 0..NumItems-1
NumItems == 20
\* number of runs of clone_channel_complete in one behaviour
MaxRuns == 2
\* number of item transfers in one behaviour that meet a remote failure
MaxFaults == 1

(* ------------------------- program constants --------------------------- *)
\* cloner.py:948  copied_count % 10 == 0
SaveEvery == 10

(* ------------------------------ helpers -------------------------------- *)
Min(a, b) == IF a < b THEN a ELSE b

\* checkpoint_data = {}  (cloner.py:806)
EmptyDict == [k \in {} |-> 0]

\* the dict written at cloner.py:850-852 / 949
Checkpoint(ch, mp) ==
    [channel_id |-> ch, channel_title |-> "T", messages_processed |-> mp]

\* variant: the loop starts at 0 whatever the checkpoint says
GetProcessedIgnored(d) == 0

\* checkpoint_data.get('messages_processed', 0)  (cloner.py:923)
GetProcessed(d) ==
    IF "messages_processed" \in DOMAIN d THEN d["messages_processed"] ELSE 0

\* the checkpoint file on disk: missing, present but not parseable (empty or
\* partially written), or a complete JSON object
NoFile == [exists |-> FALSE, parses |-> FALSE, data |-> EmptyDict]
TornFile == [exists |-> TRUE, parses |-> FALSE, data |-> EmptyDict]
WholeFile(d) == [exists |-> TRUE, parses |-> TRUE, data |-> d]

\* the source items in chronological order (after messages.reverse()):
\* text only, media with caption, media without text
Kinds == <<"text", "media_text", "media">>
KindOf(idx) == Kinds[(idx % 3) + 1]
HasMedia(idx) == KindOf(idx) \in {"media_text", "media"}
HasText(idx) == KindOf(idx) \in {"text", "media_text"}

(* ---------------- _send_message_with_media_download -------------------- *)
\* what the remote side does to one item: the download returns a file,
\* returns nothing or raises; send_file and send_message succeed or raise;
\* os.remove of the downloaded file, reached after an accepted send_file
\* (cloner.py:1010-1011), succeeds or raises.  A call that is not reached
\* for a media item is left at its default.
Envs ==
    {e \in [dl : {"file", "none", "raise"}, fileOk : BOOLEAN,
            rmOk : BOOLEAN, textOk : BOOLEAN] :
        /\ e.dl # "file" => e.fileOk
        /\ ~e.fileOk => e.rmOk
        /\ e.dl # "file" => e.rmOk}
Nominal == [dl |-> "file", fileOk |-> TRUE, rmOk |-> TRUE, textOk |-> TRUE]

Result(s, md, ms, c, d) ==
    [sent |-> s, media_downloaded |-> md, media_skipped |-> ms,
     calls |-> c, delivered |-> d]

\* _send_media_as_text and _send_protected_media_description: one
\* send_message whose failure is swallowed (cloner.py:1042-1099)
TextFallback(env, callsBefore) ==
    Result(TRUE, FALSE, TRUE, callsBefore + 1, IF env.textOk THEN 1 ELSE 0)

\* the same from the handler at cloner.py:1024-1029 when the exception is
\* that of os.remove: send_file was accepted before it
TextAfterFile(env) ==
    Result(TRUE, FALSE, TRUE, 2, IF env.textOk THEN 2 ELSE 1)

\* cloner.py:983-1040; calls = destination sends issued, delivered = sends
\* the destination accepted
TransferResult(hasMedia, hasText, protected, download, env) ==
    IF hasMedia /\ download
    THEN IF ~protected
         THEN IF env.dl = "file"
              THEN IF env.fileOk
                   THEN IF env.rmOk THEN Result(TRUE, TRUE, FALSE, 1, 1)
                                    ELSE TextAfterFile(env)
                   ELSE TextFallback(env, 1)
              ELSE TextFallback(env, 0)
         ELSE TextFallback(env, 0)
    ELSE IF hasText
         THEN IF env.textOk
              THEN Result(TRUE, FALSE, FALSE, 1, 1)
              ELSE Result(FALSE, FALSE, FALSE, 1, 0)
         ELSE Result(FALSE, FALSE, FALSE, 0, 0)

\* the same for the item at index idx of the list
SendMessageWithMediaDownload(idx, protected, download, env) ==
    TransferResult(HasMedia(idx), HasText(idx), protected, download, env)

(* ------------------------------- state --------------------------------- *)
VARIABLES
    disk,             \* the checkpoint file checkpoint_<id>_<title>.json
    pc,               \* position of the running process, "idle" if none
    resume_enabled,   \* argument of the current (at "idle": the last) run
    copy_messages,    \* arguments of the current run
    download_media,
    checkpoint_data,  \* the in-memory dict
    new_channel,      \* id of the destination container in use, 0 if none
    is_protected,
    idx,              \* loop index i of _copy_messages_complete
    start_index,
    copied_count,
    \* --- history of the behaviour, not program state ---
    run,              \* runs started
    channels,         \* destination containers created so far
    faults,           \* item transfers that met a remote failure
    lastEnd,          \* how the last run ended, "none" while a run is going
    ret,              \* what it returned: 0 for None, else the container id
    clean,            \* all runs so far: resume enabled, resume accepted when
                      \* offered, ended by an interruption between two items
    loaded,           \* this run resumed from a checkpoint it parsed
    loadFailed,       \* this run accepted the resume and could not parse
    fresh,            \* this run created its destination container
    setup,            \* the requests by which the run, at the step before,
                      \* set its container up
    wrote,            \* this run has completed a save
    copyAborted,      \* listing the source items raised in this run
    removal,          \* os.remove at the end of the run that just returned
    lastPersisted,    \* messages_processed of the last complete save; 0 after
                      \* the file was removed
    resumeFrom,       \* lastPersisted when this run accepted the resume, else -1
    lowSent,          \* lowest index this run issued a destination send for
    failedLow,        \* lowest index this run processed without any delivery
    sent,             \* items this run delivered to the destination
    prevSent,         \* the same set of the run this one resumes, taken when
                      \* that run was interrupted between two items with its
                      \* checkpoint on disk
    resent            \* items of prevSent this run delivered again

progVars == <<pc, resume_enabled, copy_messages, download_media,
              checkpoint_data, new_channel, is_protected, idx, start_index,
              copied_count>>
histVars == <<run, channels, faults, lastEnd, ret, clean, loaded, loadFailed,
              fresh, setup, wrote, copyAborted, removal, lastPersisted,
              resumeFrom, lowSent,
              failedLow, sent, prevSent, resent>>
migrationVars == <<disk, progVars, histVars>>

(* --------------- state of the other specifications -------------------- *)
VARIABLES
    \* --- KeySpec ---
    titles,           \* new_title of the two migrations of the one source
    files,            \* file name -> the file of that name
    k_pc,             \* per migration: "idle", "running" or "returned"
    k_loaded,         \* per migration: the migration whose file it loaded, 0
                      \* if it loaded none
    foreign           \* what a migration did to a file the other one wrote

keyVars == <<titles, files, k_pc, k_loaded, foreign>>

\* no migration of KeySpec has started
KeyIdle ==
    /\ titles = <<>>
    /\ files = <<>>
    /\ k_pc = <<>>
    /\ k_loaded = <<>>
    /\ foreign = {}

VARIABLES
    \* --- TransferSpec ---
    path,             \* "process": clone_channel with _process_messages;
                      \* "complete": _copy_messages_complete
    bind,             \* is_public and username (cloner.py:398)
    listing,          \* what iter_messages yields, newest first
    messages,         \* the collected list
    skipped_media,
    downloaded_media,
    sends,            \* the destination sends issued for the last item, in
                      \* order, each with its content and its outcome
    downloads,        \* download_media calls made for the last item
    item_result,      \* the dict result returned for the last item
    checks,           \* calls of _check_content_protection in the run
    check_failed,     \* the request of the last of them raised
    protection_error, \* the call of the last item's branch raised an
                      \* exception whose text names a content protection
    lastSentId,       \* id of the newest item a send was issued for
    orderOk,          \* no send was issued for an item older than lastSentId
    attempts,         \* index -> times the loop has taken the item up
    errors,           \* error reports printed for items so far
    flooded,          \* position of the item that met a rate-limit signal, 0
                      \* if none did
    failed            \* the steps of clone_channel that have failed

transferVars == <<path, bind, listing, messages, skipped_media,
                  downloaded_media, sends, downloads, item_result,
                  protection_error, checks, check_failed,
                  lastSentId, orderOk,
                  attempts, errors, flooded, failed>>

\* result = {'sent': ..., 'media_downloaded': ..., 'media_skipped': ...}
\* (cloner.py:993-994; _send_single_message has no media_downloaded)
Flags(s, md, ms) == [sent |-> s, media_downloaded |-> md, media_skipped |-> ms]

\* no run of TransferSpec has started
TransferIdle ==
    /\ path = "none"
    /\ bind = FALSE
    /\ listing = <<>>
    /\ messages = <<>>
    /\ skipped_media = 0
    /\ downloaded_media = 0
    /\ sends = <<>>
    /\ downloads = 0
    /\ item_result = Flags(FALSE, FALSE, FALSE)
    /\ protection_error = FALSE
    /\ checks = 0
    /\ check_failed = FALSE
    /\ lastSentId = 0
    /\ orderOk = TRUE
    /\ attempts = <<>>
    /\ errors = 0
    /\ flooded = 0
    /\ failed = {}

VARIABLES
    \* --- MediaSpec ---
    m_pc,             \* position in download_and_send_media
    size,             \* file_info['size'] of the item in hand
    max_retries,      \* config.max_retries
    allow_all_extensions,
    attempt,          \* loop variable of the retry loop in progress
    total_downloaded,
    total_uploaded,
    failed_downloads,
    skipped_files,
    temp_file,        \* the downloaded file exists in temp_dir
    m_ret,            \* "none" while the call runs, else what it returned
    slept,            \* in this call: the last sleep for a rate-limit signal
    calls,            \* calls of download_and_send_media so far
    before,           \* get_stats() when the call in hand was made
    dl_calls,         \* client.download_media calls of the call in hand
    up_calls,         \* client.send_file calls of the call in hand
    notices,          \* notice messages sent by the call in hand
    only_rate,        \* every remote failure of the call in hand was a
                      \* rate-limit signal
    checked,          \* the call in hand has run _validate_file
    format,           \* what _is_supported_format did in the call in hand
    undelayed         \* in the call in hand, an attempt began right after one
                      \* that met a timeout, a stale reference or another
                      \* error, without the sleep of retry_delay between them

mediaVars == <<m_pc, size, max_retries, allow_all_extensions, attempt,
               total_downloaded, total_uploaded, failed_downloads,
               skipped_files, temp_file, m_ret, slept, calls, before,
               dl_calls, up_calls, notices, only_rate, checked, format,
               undelayed>>

\* get_stats()  (media_handler.py:455-462)
Stats(dn, up, fl, sk) ==
    [downloaded |-> dn, uploaded |-> up, failed |-> fl, skipped |-> sk]

\* MediaHandler.__init__ (media_handler.py:26-42)
MediaIdle ==
    /\ m_pc = "m_idle"
    /\ size = 0
    /\ max_retries = 0
    /\ allow_all_extensions = TRUE
    /\ attempt = 0
    /\ total_downloaded = 0
    /\ total_uploaded = 0
    /\ failed_downloads = 0
    /\ skipped_files = 0
    /\ temp_file = FALSE
    /\ m_ret = "none"
    /\ slept = 0
    /\ calls = 0
    /\ before = Stats(0, 0, 0, 0)
    /\ dl_calls = 0
    /\ up_calls = 0
    /\ notices = 0
    /\ only_rate = TRUE
    /\ checked = FALSE
    /\ format = "unasked"
    /\ undelayed = FALSE

VARIABLES
    \* --- RelatedSpec ---
    r_pc,             \* position in the classification of one dialog
    base_name,        \* source_dialog.name of the supergroup
    channel_name,     \* dialog.name of the candidate
    broadcast,        \* entity.broadcast of the candidate
    linked_chat,      \* full_chat.linked_chat_id is the candidate's id
    related           \* the candidate was appended to related_channels

relatedVars == <<r_pc, base_name, channel_name, broadcast, linked_chat,
                 related>>

\* no classification of RelatedSpec has started
RelatedIdle ==
    /\ r_pc = "r_idle"
    /\ base_name = <<>>
    /\ channel_name = <<>>
    /\ broadcast = FALSE
    /\ linked_chat = FALSE
    /\ related = FALSE

VARIABLES
    \* --- ProgressSpec ---
    d_pc,             \* position in download_dialog_media
    want_images,
    want_videos,
    last_id,
    processed_since_save,
    count_total,
    count_downloaded,
    count_skipped,
    count_errors,
    progress_file,    \* .progress.json: NoProgress, Garbled, or its last_id
    highest,          \* highest id of the items the loop has taken so far
    saved_highest,    \* the value of highest when the file was last written
    others,           \* items met whose media is neither photo nor video
    d_faults,         \* downloads and writes that failed
    write_failed,     \* a write of the progress file has failed
    d_runs,           \* calls of download_dialog_media for the dialog
    best_persisted,   \* highest last_id a complete progress file has held
    refetched         \* download_media was called for an item whose id was
                      \* not above best_persisted

progressVars == <<d_pc, want_images, want_videos, last_id,
                  processed_since_save, count_total, count_downloaded,
                  count_skipped, count_errors, progress_file, highest,
                  saved_highest, others, d_faults, write_failed, d_runs,
                  best_persisted, refetched>>

\* the progress file does not exist / does not parse
NoProgress == -1
Garbled == -2

\* download_dialog_media has not been called
ProgressIdle ==
    /\ d_pc = "d_idle"
    /\ want_images = TRUE
    /\ want_videos = TRUE
    /\ last_id = 0
    /\ processed_since_save = 0
    /\ count_total = 0
    /\ count_downloaded = 0
    /\ count_skipped = 0
    /\ count_errors = 0
    /\ progress_file = NoProgress
    /\ highest = 0
    /\ saved_highest = 0
    /\ others = 0
    /\ d_faults = 0
    /\ write_failed = FALSE
    /\ d_runs = 0
    /\ best_persisted = 0
    /\ refetched = FALSE

VARIABLES
    \* --- FormatSpec ---
    f_pc,             \* position in _format_size
    size_bytes,       \* the argument, as a number of units of 1024^exp bytes
    f_size,           \* the local variable size, in the same form
    f_i,              \* the local variable i
    f_text            \* the string returned

formatVars == <<f_pc, size_bytes, f_size, f_i, f_text>>

\* the number num * 1024^exp; exp is negative after divisions
Scaled(num, exp) == [num |-> num, exp |-> exp]

\* the string of a number with the digits of its tenths, if any, and a unit
Text(whole, decimals, unit) ==
    [whole |-> whole, decimals |-> decimals, unit |-> unit]

\* _format_size has not been called
FormatIdle ==
    /\ f_pc = "f_idle"
    /\ size_bytes = Scaled(0, 0)
    /\ f_size = Scaled(0, 0)
    /\ f_i = 0
    /\ f_text = Text(0, <<>>, "")

VARIABLES
    \* --- SuperSpec ---
    s_pc,             \* position in clone_supergroup_with_channels
    related_channels, \* how many dialogs _find_related_channels returned
    s_i,              \* related dialogs _clone_related_channels is through
    results,          \* the dict results: the main group (0: None), the
                      \* related dialogs whose clone is in 'channels', and
                      \* the length of 'errors'
    announcements,    \* the sends of _announce_linked_channel, in order
    link_i,           \* channels _link_cloned_channels is through
    at_link,          \* results as _link_cloned_channels was given it
    early,            \* an announcement was sent while a related dialog
                      \* was still to be cloned
    s_ret             \* what the call returned, Pending before

superVars == <<s_pc, related_channels, s_i, results, announcements, link_i,
               at_link, early, s_ret>>

\* results = {'main_group': ..., 'channels': [...], 'errors': [...]}
Results(main, chans, errs) ==
    [main_group |-> main, channels |-> chans, errors |-> errs]

\* the call has not returned
Pending == Results(0 - 1, <<>>, 0)

\* clone_supergroup_with_channels has not been called
SuperIdle ==
    /\ s_pc = "s_idle"
    /\ related_channels = 0
    /\ s_i = 0
    /\ results = Results(0, <<>>, 0)
    /\ announcements = <<>>
    /\ link_i = 0
    /\ at_link = Results(0, <<>>, 0)
    /\ early = FALSE
    /\ s_ret = Pending

toolVars == <<relatedVars, progressVars, formatVars, superVars>>

\* what the steps of one of these specifications leave alone
exceptRelated == <<migrationVars, keyVars, transferVars, mediaVars,
                   progressVars, formatVars, superVars>>
exceptProgress == <<migrationVars, keyVars, transferVars, mediaVars,
                    relatedVars, formatVars, superVars>>
exceptFormat == <<migrationVars, keyVars, transferVars, mediaVars,
                  relatedVars, progressVars, superVars>>
exceptSuper == <<migrationVars, keyVars, transferVars, mediaVars,
                 relatedVars, progressVars, formatVars>>

ToolIdle ==
    /\ RelatedIdle
    /\ ProgressIdle
    /\ FormatIdle
    /\ SuperIdle

unitVars == <<keyVars, transferVars, mediaVars, toolVars>>

UnitIdle ==
    /\ KeyIdle
    /\ TransferIdle
    /\ MediaIdle
    /\ ToolIdle

vars == <<migrationVars, unitVars>>

\* no run of clone_channel_complete has started
MigrationIdle ==
    /\ disk = NoFile
    /\ pc = "idle"
    /\ resume_enabled = TRUE
    /\ copy_messages = TRUE
    /\ download_media = TRUE
    /\ checkpoint_data = EmptyDict
    /\ new_channel = 0
    /\ is_protected = FALSE
    /\ idx = 0
    /\ start_index = 0
    /\ copied_count = 0
    /\ run = 0
    /\ channels = 0
    /\ faults = 0
    /\ lastEnd = "none"
    /\ ret = 0
    /\ clean = TRUE
    /\ loaded = FALSE
    /\ loadFailed = FALSE
    /\ fresh = FALSE
    /\ setup = {}
    /\ wrote = FALSE
    /\ copyAborted = FALSE
    /\ removal = "none"
    /\ lastPersisted = 0
    /\ resumeFrom = -1
    /\ lowSent = NumItems
    /\ failedLow = NumItems
    /\ sent = {}
    /\ prevSent = {}
    /\ resent = 0

Init ==
    /\ MigrationIdle
    /\ UnitIdle

\* the process is gone (returned or terminated): its memory is gone too
ProcessGone ==
    /\ pc' = "idle"
    /\ checkpoint_data' = EmptyDict
    /\ new_channel' = 0
    /\ is_protected' = FALSE
    /\ idx' = 0
    /\ start_index' = 0
    /\ copied_count' = 0
    /\ copy_messages' = TRUE
    /\ download_media' = TRUE
    /\ UNCHANGED resume_enabled

\* the per-run history starts again
RunHistoryReset ==
    /\ loaded' = FALSE
    /\ loadFailed' = FALSE
    /\ fresh' = FALSE
    /\ setup' = {}
    /\ wrote' = FALSE
    /\ copyAborted' = FALSE
    /\ resumeFrom' = -1
    /\ lowSent' = NumItems
    /\ failedLow' = NumItems
    /\ sent' = {}
    /\ resent' = 0

(* ---------------------- clone_channel_complete ------------------------- *)
\* variant: json.load without the try/except around it
LoadCheckpointUnguarded(d) ==
    [ok |-> d.parses, data |-> IF d.parses THEN d.data ELSE EmptyDict]

\* cloner.py:813-821: json.load inside try/except Exception; ok = FALSE would
\* be an exception that leaves the handler
LoadCheckpoint(d) ==
    [ok |-> TRUE, data |-> IF d.parses THEN d.data ELSE EmptyDict]

\* cloner.py:791-821: the arguments arrive, the checkpoint file is looked up,
\* the user is asked and the file is loaded
StartRun(re, cm, dm, choice) ==
    LET offered == re /\ disk.exists
        accepted == offered /\ choice = "s"
        res == IF accepted THEN LoadCheckpoint(disk)
                           ELSE [ok |-> TRUE, data |-> EmptyDict]
    IN  /\ pc = "idle"
        /\ run < MaxRuns
        /\ run' = run + 1
        /\ resume_enabled' = re
        /\ copy_messages' = cm
        /\ download_media' = dm
        /\ clean' = (clean /\ re /\ (offered => accepted))
        /\ loaded' = (accepted /\ disk.parses)
        /\ loadFailed' = (accepted /\ ~disk.parses)
        /\ resumeFrom' = IF accepted THEN lastPersisted ELSE -1
        /\ prevSent' = IF accepted /\ disk.parses THEN prevSent ELSE {}
        /\ fresh' = FALSE
        /\ setup' = {}
        /\ wrote' = FALSE
        /\ copyAborted' = FALSE
        /\ lowSent' = NumItems
        /\ failedLow' = NumItems
        /\ sent' = {}
        /\ resent' = 0
        /\ removal' = "none"
        /\ ret' = 0
        /\ IF res.ok
           THEN /\ pc' = "provision"
                /\ checkpoint_data' = res.data
                /\ lastEnd' = "none"
           ELSE \* cloner.py:882-884
                /\ pc' = "idle"
                /\ checkpoint_data' = EmptyDict
                /\ lastEnd' = "aborted_load"
        /\ UNCHANGED <<disk, new_channel, is_protected, idx, start_index,
                       copied_count, channels, faults, lastPersisted>>
        /\ UNCHANGED unitVars

\* variant: a destination is created whatever the checkpoint holds
NoChannelEver(d) == TRUE

\* 'channel_id' not in checkpoint_data  (cloner.py:824)
NoChannel(d) == "channel_id" \notin DOMAIN d

\* cloner.py:823-858: create the destination (the checkpoint is filled in
\* memory only), with the username request when b (is_public and username)
\* and the photo copy, or look up the one the checkpoint names; a failure of
\* the creation or the lookup is caught at 882-884 and the run returns None
Provision(ok, b) ==
    /\ pc = "provision"
    /\ IF ok
       THEN /\ IF NoChannel(checkpoint_data)
               THEN /\ channels' = channels + 1
                    /\ new_channel' = channels + 1
                    /\ checkpoint_data' = Checkpoint(channels + 1, 0)
                    /\ fresh' = TRUE
                    /\ setup' = IF b THEN {"create", "username", "photo"}
                                     ELSE {"create", "photo"}
               ELSE /\ new_channel' = checkpoint_data["channel_id"]
                    /\ UNCHANGED <<channels, checkpoint_data, fresh, setup>>
            /\ pc' = IF copy_messages THEN "copy" ELSE "finish"
            /\ UNCHANGED <<resume_enabled, copy_messages, download_media,
                           is_protected, idx, start_index, copied_count,
                           lastEnd, ret, clean, prevSent>>
            /\ UNCHANGED <<loaded, loadFailed, wrote, copyAborted, resumeFrom,
                           lowSent, failedLow, sent, resent>>
       ELSE /\ ProcessGone
            /\ RunHistoryReset
            /\ lastEnd' = "aborted"
            /\ ret' = 0
            /\ clean' = FALSE
            /\ prevSent' = {}
            /\ UNCHANGED channels
    /\ UNCHANGED <<disk, run, faults, removal, lastPersisted>>
    /\ UNCHANGED unitVars

(* ---------------------- _copy_messages_complete ------------------------ *)
\* where the loop goes after item j: the next item or the end of the list
AfterItem(j) == IF j + 1 < NumItems THEN "loop" ELSE "finish"

\* cloner.py:902-929: protection check, collection of the items, start index.
\* An exception while listing is caught at 980-981 and the function returns.
Collect(prot, listOk) ==
    /\ pc = "copy"
    /\ is_protected' = prot
    /\ setup' = {}
    /\ IF listOk
       THEN /\ start_index' = GetProcessed(checkpoint_data)
            /\ copied_count' = GetProcessed(checkpoint_data)
            /\ idx' = GetProcessed(checkpoint_data)
            /\ pc' = IF GetProcessed(checkpoint_data) < NumItems
                     THEN "loop" ELSE "finish"
            /\ UNCHANGED copyAborted
       ELSE /\ pc' = "finish"
            /\ copyAborted' = TRUE
            /\ UNCHANGED <<start_index, copied_count, idx>>
    /\ UNCHANGED <<disk, resume_enabled, copy_messages, download_media,
                   checkpoint_data, new_channel>>
    /\ UNCHANGED <<run, channels, faults, lastEnd, ret, clean, loaded,
                   loadFailed, fresh, wrote, removal, lastPersisted,
                   resumeFrom, lowSent, failedLow, sent, prevSent, resent>>
    /\ UNCHANGED unitVars

\* cloner.py:940-941
CountCopied(count, result) == IF result.sent THEN count + 1 ELSE count

\* variant: the save does not depend on resume being enabled
SaveDueAnyway(enabled, count) == count % SaveEvery = 0

\* cloner.py:948: checkpoint_file is None when resume is disabled (867)
SaveDue(enabled, count) == enabled /\ count % SaveEvery = 0

\* cloner.py:931-948 for item idx: transfer it, count it, decide on the save
ProcessItem(env) ==
    LET result == SendMessageWithMediaDownload(idx, is_protected,
                                                download_media, env)
        nominal == SendMessageWithMediaDownload(idx, is_protected,
                                                 download_media, Nominal)
        count == CountCopied(copied_count, result)
        due == SaveDue(resume_enabled, count)
    IN  /\ pc = "loop"
        /\ result = nominal \/ faults < MaxFaults
        /\ faults' = IF result = nominal THEN faults ELSE faults + 1
        /\ copied_count' = count
        /\ pc' = IF due THEN "save" ELSE AfterItem(idx)
        /\ idx' = IF due THEN idx ELSE idx + 1
        /\ lowSent' = IF result.calls > 0 THEN Min(lowSent, idx) ELSE lowSent
        /\ failedLow' = IF result.delivered = 0 THEN Min(failedLow, idx)
                        ELSE failedLow
        /\ sent' = IF result.delivered > 0 THEN sent \cup {idx} ELSE sent
        /\ resent' = IF result.delivered > 0 /\ idx \in prevSent
                     THEN resent + 1 ELSE resent
        /\ UNCHANGED <<disk, resume_enabled, copy_messages, download_media,
                       checkpoint_data, new_channel, is_protected, start_index>>
        /\ UNCHANGED <<run, channels, lastEnd, ret, clean, loaded, loadFailed,
                       fresh, setup, wrote, copyAborted, removal,
                       lastPersisted, resumeFrom,
                       prevSent>>
        /\ UNCHANGED unitVars

\* variant: enumerate(messages[start_index:]) without its start argument
SavedIndexRelative(j) == j + 1 - start_index

\* cloner.py:949
SavedIndex(j) == j + 1

\* cloner.py:949-950: the index is stored in the dict and open(..., 'w')
\* truncates the file
SaveOpen ==
    /\ pc = "save"
    /\ checkpoint_data' =
          [checkpoint_data EXCEPT !["messages_processed"] = SavedIndex(idx)]
    /\ disk' = TornFile
    /\ pc' = "dump"
    /\ UNCHANGED <<resume_enabled, copy_messages, download_media, new_channel,
                   is_protected, idx, start_index, copied_count>>
    /\ UNCHANGED histVars
    /\ UNCHANGED unitVars

\* cloner.py:951-952: json.dump and the close of the file
SaveDump ==
    /\ pc = "dump"
    /\ disk' = WholeFile(checkpoint_data)
    /\ lastPersisted' = checkpoint_data["messages_processed"]
    /\ wrote' = TRUE
    /\ idx' = idx + 1
    /\ pc' = AfterItem(idx)
    /\ UNCHANGED <<resume_enabled, copy_messages, download_media,
                   checkpoint_data, new_channel, is_protected, start_index,
                   copied_count>>
    /\ UNCHANGED <<run, channels, faults, lastEnd, ret, clean, loaded,
                   loadFailed, fresh, setup, copyAborted, removal, resumeFrom,
                   lowSent, failedLow, sent, prevSent, resent>>
    /\ UNCHANGED unitVars

(* ------------------ clone_channel_complete, the end -------------------- *)
\* variant: the file is left behind
RemoveCheckpointKept(d, enabled, rmOk) == d

\* cloner.py:872-877: os.remove, whose failure is swallowed
RemoveCheckpoint(d, enabled, rmOk) ==
    IF enabled /\ d.exists /\ rmOk THEN NoFile ELSE d

\* cloner.py:871-880
Finish(rmOk) ==
    /\ pc = "finish"
    /\ disk' = RemoveCheckpoint(disk, resume_enabled, rmOk)
    /\ removal' = IF resume_enabled /\ disk.exists
                  THEN IF rmOk THEN "removed" ELSE "failed"
                  ELSE "none"
    /\ lastPersisted' = IF resume_enabled /\ disk.exists /\ rmOk
                        THEN 0 ELSE lastPersisted
    /\ lastEnd' = "returned"
    /\ ret' = new_channel
    /\ clean' = FALSE
    /\ prevSent' = {}
    /\ ProcessGone
    /\ RunHistoryReset
    /\ UNCHANGED <<run, channels, faults>>
    /\ UNCHANGED unitVars

\* the file on disk is a complete checkpoint of the running migration
OwnCheckpointOnDisk ==
    /\ resume_enabled
    /\ disk.parses
    /\ disk.data["channel_id"] = new_channel

(* ------------------------- process termination ------------------------- *)
\* the user interrupts or the process is killed; KeyboardInterrupt is not an
\* Exception, so no handler of the program catches it
Kill ==
    /\ pc # "idle"
    /\ lastEnd' = "killed"
    /\ ret' = 0
    /\ clean' = (clean /\ pc = "loop" /\ idx > start_index)
    /\ prevSent' = IF pc = "loop" /\ OwnCheckpointOnDisk THEN sent ELSE {}
    /\ ProcessGone
    /\ RunHistoryReset
    /\ UNCHANGED <<disk, run, channels, faults, removal, lastPersisted>>
    /\ UNCHANGED unitVars

Next ==
    \/ \E re \in BOOLEAN, cm \in BOOLEAN, dm \in BOOLEAN, choice \in {"s", "n"} :
          StartRun(re, cm, dm, choice)
    \/ \E ok \in BOOLEAN, b \in BOOLEAN : Provision(ok, b)
    \/ \E prot \in BOOLEAN, listOk \in BOOLEAN : Collect(prot, listOk)
    \/ \E env \in Envs : ProcessItem(env)
    \/ SaveOpen
    \/ SaveDump
    \/ \E rmOk \in BOOLEAN : Finish(rmOk)
    \/ Kill

Spec == Init /\ [][Next]_vars

TypeOK ==
    /\ pc \in {"idle", "provision", "copy", "loop", "save", "dump", "finish"}
    /\ idx \in 0..NumItems
    /\ copied_count \in 0..NumItems
    /\ channels \in 0..MaxRuns
    /\ run \in 0..MaxRuns
    /\ faults \in 0..MaxFaults

(* ======================== the claims, C1..C10 ========================== *)
InRun == pc # "idle"
AfterProvision == pc \in {"copy", "loop", "save", "dump", "finish"}
InLoop == pc \in {"loop", "save", "dump"}

\* C1: a run that accepts the resume after the persisted messages_processed
\* had reached k issues no destination send for an item with index < k.
C1_NoSendBelowCheckpoint ==
    (InRun /\ resumeFrom >= 0) => lowSent >= resumeFrom

\* C2: over runs with resume enabled that are interrupted between two items
\* and accept the resume when it is offered, one destination container is
\* created in all.
C2_ContainerCreatedOnce ==
    clean => channels <= 1

\* C3: from the creation of the destination container until the run ends a
\* parseable checkpoint naming that container is on disk.
C3_CheckpointWhileInFlight ==
    (resume_enabled /\ AfterProvision)
        => (disk.parses /\ disk.data["channel_id"] = new_channel)

\* C4 as stated: after a run with resume enabled has returned the destination
\* container no checkpoint file exists.
C4_AbsentAfterReturn ==
    (pc = "idle" /\ lastEnd = "returned" /\ resume_enabled) => ~disk.exists

\* C4 as amended: after a run with resume enabled has returned the destination
\* container no checkpoint file exists, unless removing the file failed.
C4_AbsentAfterReturnUnlessRemoveFailed ==
    (pc = "idle" /\ lastEnd = "returned" /\ resume_enabled
        /\ removal # "failed") => ~disk.exists

C4_Witness ==
    /\ pc = "idle"
    /\ lastEnd = "returned"
    /\ resume_enabled
    /\ removal = "removed"
    /\ ~disk.exists

\* C5: once listing the source items has raised, the run leaves a complete
\* checkpoint file as it is.
C5_KeptWhenCopyStopsEarly ==
    [][(copyAborted /\ disk.parses) => disk' = disk]_vars

\* C6 as stated: every completely written messages_processed is at least the
\* value written before it, over all runs (no unparseable file involved).
C6_NeverDecreases ==
    [][(disk' # disk /\ disk'.parses /\ ~loadFailed)
          => disk'.data["messages_processed"] >= lastPersisted]_vars

\* C6 as amended: every messages_processed written by a run that resumed from
\* the checkpoint it loaded, or that has written before, is at least the value
\* written before it and is the index after the item just processed.
C6_NeverDecreasesWhenContinuing ==
    [][(disk' # disk /\ disk'.parses /\ (loaded \/ wrote))
          => /\ disk'.data["messages_processed"] >= lastPersisted
             /\ disk'.data["messages_processed"] = idx + 1]_vars

C6_Witness ==
    /\ loaded
    /\ wrote
    /\ start_index > 0
    /\ disk.parses
    /\ disk.data["messages_processed"] > start_index

\* C7: every item below the persisted messages_processed was delivered to
\* the destination (as itself or as its fallback text).
C7_PersistedItemsDelivered ==
    (InRun /\ wrote /\ disk.parses)
        => failedLow >= disk.data["messages_processed"]

C9_SaveAtomic ==
    (pc = "idle" /\ disk.exists) => disk.parses

\* C10: a run that accepted the resume and could not parse the file is not
\* aborted by that; it goes on with an empty dict, creates a new destination
\* container and starts at item 0.
C10_UnparseableStartsFresh ==
    /\ lastEnd # "aborted_load"
    /\ loadFailed =>
          /\ InRun
          /\ pc = "provision" => checkpoint_data = EmptyDict
          /\ AfterProvision => (fresh /\ new_channel = channels)
          /\ InLoop => start_index = 0

C10_Witness ==
    /\ loadFailed
    /\ pc = "loop"
    /\ fresh
    /\ idx > 0
    /\ lowSent = 0

\* C24: a run that has loaded a checkpoint (which names a container) and
\* has its destination in hand has created no container, has come to the
\* copying without a username request or a photo copy, and the destination
\* its sends go to is the container the checkpoint names, one created by an
\* earlier run.
C24_ResumeReusesContainer ==
    (AfterProvision /\ loaded)
        => /\ ~fresh
           /\ pc = "copy" => setup = {}
           /\ new_channel = checkpoint_data["channel_id"]
           /\ new_channel \in 1..channels

C24_Witness ==
    /\ pc = "loop"
    /\ loaded
    /\ run = 2
    /\ start_index > 0
    /\ idx > start_index
    /\ channels = 1
    /\ new_channel = 1

\* C33: in a run that did not resume, the copied count of
\* _copy_messages_complete is, after every pass and at the end, the number
\* of items one of whose sends the destination accepted, and it is never
\* more than the number of collected items.
C33_CopiedCountIsDelivered ==
    (AfterProvision /\ ~loaded /\ ~copyAborted /\ pc # "copy")
        => /\ copied_count = Cardinality(sent)
           /\ copied_count <= NumItems

\* C34: a run of clone_channel_complete with resume_enabled = False does
\* not read the checkpoint file, does not write it and does not remove it:
\* no step of the run changes the file, whatever it held before.
C34_DisabledResumeLeavesFile ==
    /\ [](~resume_enabled
            => /\ ~loaded /\ ~loadFailed /\ ~wrote
               /\ pc \notin {"save", "dump"}
               /\ removal = "none")
    /\ [][~resume_enabled' => disk' = disk]_vars

C34_Witness ==
    /\ pc = "idle"
    /\ run = 2
    /\ ~resume_enabled
    /\ lastEnd = "returned"
    /\ disk.parses
    /\ lastPersisted > 0

(* ======================================================================= *)
(* KeySpec: the checkpoint file name.  Two migrations of one source, with  *)
(* different destination titles and resume enabled, share the working      *)
(* directory; each looks up, loads, writes and removes the file its own    *)
(* title names (cloner.py:805-821, 948-952, 871-877).                      *)
(* ======================================================================= *)
\* longest destination title, in characters
MaxTitleLen == 2

\* the characters of a title: a letter, the space and the underscore
Chars == {"a", " ", "_"}
Titles == UNION {[1..n -> Chars] : n \in 1..MaxTitleLen}

\* new_title.replace(' ', '_')  (cloner.py:805)
Replace(title) ==
    [i \in 1..Len(title) |-> IF title[i] = " " THEN "_" ELSE title[i]]

\* f"checkpoint_{source_entity.id}_{new_title.replace(' ', '_')}.json"
CheckpointFile(id, title) ==
    <<"checkpoint_", id, "_">> \o Replace(title) \o <<".json">>

Migrations == {1, 2}
KeyOf(m) == CheckpointFile("id", titles[m])

KeyStart ==
    /\ titles \in {t \in [Migrations -> Titles] : t[1] # t[2]}
    /\ files = [k \in {CheckpointFile("id", titles[m]) : m \in Migrations}
                   |-> 0]
    /\ k_pc = [m \in Migrations |-> "idle"]
    /\ k_loaded = [m \in Migrations |-> 0]
    /\ foreign = {}

KeyInit ==
    /\ MigrationIdle
    /\ ToolIdle
    /\ TransferIdle
    /\ MediaIdle
    /\ KeyStart

\* cloner.py:805-821: migration m starts; files[k] is 0 when no file of that
\* name exists, else the migration that wrote it
KeyLoad(m, choice) ==
    /\ k_pc[m] = "idle"
    /\ k_pc' = [k_pc EXCEPT ![m] = "running"]
    /\ IF files[KeyOf(m)] # 0 /\ choice = "s"
       THEN /\ k_loaded' = [k_loaded EXCEPT ![m] = files[KeyOf(m)]]
            /\ foreign' = IF files[KeyOf(m)] # m
                          THEN foreign \cup {"load"} ELSE foreign
       ELSE /\ k_loaded' = [k_loaded EXCEPT ![m] = 0]
            /\ UNCHANGED foreign
    /\ UNCHANGED <<titles, files>>
    /\ UNCHANGED <<migrationVars, transferVars, mediaVars, toolVars>>

\* cloner.py:948-952: migration m writes its checkpoint
KeySave(m) ==
    /\ k_pc[m] = "running"
    /\ files' = [files EXCEPT ![KeyOf(m)] = m]
    /\ foreign' = IF files[KeyOf(m)] \notin {0, m}
                  THEN foreign \cup {"overwrite"} ELSE foreign
    /\ UNCHANGED <<titles, k_pc, k_loaded>>
    /\ UNCHANGED <<migrationVars, transferVars, mediaVars, toolVars>>

\* cloner.py:871-880: migration m removes the file of its name and returns
KeyRemove(m) ==
    /\ k_pc[m] = "running"
    /\ k_pc' = [k_pc EXCEPT ![m] = "returned"]
    /\ files' = [files EXCEPT ![KeyOf(m)] = 0]
    /\ foreign' = IF files[KeyOf(m)] \notin {0, m}
                  THEN foreign \cup {"delete"} ELSE foreign
    /\ UNCHANGED <<titles, k_loaded>>
    /\ UNCHANGED <<migrationVars, transferVars, mediaVars, toolVars>>

\* the process of migration m is terminated; it can be started again
KeyKill(m) ==
    /\ k_pc[m] = "running"
    /\ k_pc' = [k_pc EXCEPT ![m] = "idle"]
    /\ UNCHANGED <<titles, files, k_loaded, foreign>>
    /\ UNCHANGED <<migrationVars, transferVars, mediaVars, toolVars>>

KeyNext ==
    \/ \E m \in Migrations, choice \in {"s", "n"} : KeyLoad(m, choice)
    \/ \E m \in Migrations : KeySave(m)
    \/ \E m \in Migrations : KeyRemove(m)
    \/ \E m \in Migrations : KeyKill(m)

KeySpec == KeyInit /\ [][KeyNext]_vars

\* C11: two migrations of one source whose destination titles differ never
\* load, overwrite or delete each other's checkpoint file.
C11_TitlesIndependent ==
    foreign = {}

(* ======================================================================= *)
(* TransferSpec: one run of clone_channel (cloner.py:352-410) with         *)
(* _copy_messages, _collect_messages, _process_messages,                   *)
(* _send_single_message and _handle_message_error, or one run of           *)
(* _copy_messages_complete (cloner.py:886-981), item by item, with the     *)
(* content and the outcome of every destination send.  The process is not  *)
(* terminated in this specification.                                       *)
(* ======================================================================= *)
\* number of items iter_messages yields that have text or media
ListLen == 10

\* a source item: message.id, whether message.text is non-empty, the kind of
\* message.media and the size of the attachment in MB
Item(id, text, media, mb) ==
    [id |-> id, text |-> text, media |-> media, size |-> mb]
NoMedia(m) == m.media = "none"
IsWebpage(m) == m.media = "webpage"

\* the kinds of item a listing is made of
ItemKinds ==
    << [text |-> TRUE, media |-> "none"],
       [text |-> TRUE, media |-> "photo"],
       [text |-> FALSE, media |-> "document"],
       [text |-> TRUE, media |-> "webpage"],
       [text |-> TRUE, media |-> "none"],
       [text |-> TRUE, media |-> "document"],
       [text |-> FALSE, media |-> "photo"] >>
KindAt(id) == ItemKinds[(id % Len(ItemKinds)) + 1]

\* a listing as iter_messages yields it, newest first: a service message
\* without text and media, then ListLen items of the kinds above
MixedListing ==
    [i \in 1..(ListLen + 1) |->
        IF i = 1
        THEN Item(ListLen + 1, FALSE, "none", 0)
        ELSE Item(ListLen + 2 - i,
                  KindAt(ListLen + 2 - i).text,
                  KindAt(ListLen + 2 - i).media,
                  IF KindAt(ListLen + 2 - i).media = "none" THEN 0 ELSE 1)]

\* 25 items, 20 of them text only and 5 documents of 15 MB, newest first
OversizedListing ==
    [i \in 1..25 |->
        IF (26 - i) % 5 = 0
        THEN Item(26 - i, FALSE, "document", 15)
        ELSE Item(26 - i, TRUE, "none", 0)]

Listings == {MixedListing, OversizedListing}

\* variant: the list is processed as iter_messages yields it
KeepOrder(s) == s

\* messages.reverse()  (cloner.py:507, 918)
Reverse(s) == [i \in 1..Len(s) |-> s[Len(s) + 1 - i]]

\* if message.text or message.media  (cloner.py:504-505, 914-915)
Collectable(m) == m.text \/ ~NoMedia(m)

\* cloner.py:502-508, 911-918
CollectMessages(l) == Reverse(SelectSeq(l, Collectable))

(* -------------------- what the remote side answers --------------------- *)
\* the outcome of one remote call: it succeeds, or it raises an exception;
\* rate says that the exception is a rate-limit signal (FloodWaitError),
\* words are the keywords of cloner.py:592-594 and 622-623 that its text
\* contains
Outcome(ok, rate, words) == [ok |-> ok, rate |-> rate, words |-> words]
Ok == Outcome(TRUE, FALSE, {})
Errors ==
    { Outcome(FALSE, TRUE, {"flood wait"}),
      Outcome(FALSE, TRUE, {}),
      Outcome(FALSE, FALSE, {"timeout"}),
      Outcome(FALSE, FALSE, {"upload"}),
      Outcome(FALSE, FALSE, {"network"}),
      Outcome(FALSE, FALSE, {"protected chat"}),
      Outcome(FALSE, FALSE, {"cannot use"}),
      Outcome(FALSE, FALSE, {"file reference expired"}),
      Outcome(FALSE, FALSE, {}) }
Outcomes == {Ok} \cup Errors

\* cloner.py:592-594
Keywords1 == {"protected chat", "cannot use", "file reference expired",
              "upload", "download", "timeout", "flood wait"}
\* the first three of them: the texts of a content-protection error
ProtectionErrors == {"protected chat", "cannot use", "file reference expired"}
\* cloner.py:622-623
Keywords2 == {"protected chat", "flood wait", "timeout", "network"}

\* any(keyword in error_msg for keyword in ...)
Contains(err, keywords) == err.words \cap keywords # {}

\* one destination send: the client call, what it carries and whether the
\* destination accepted it.  Contents: "text" is message.text as it is,
\* "media" the attachment with its caption, "webpage" the link composition
\* of _format_webpage_message, every other one a text made up for the item
Send(call, content, ok) == [call |-> call, content |-> content, ok |-> ok]
Descriptions == {"protected_description", "copy_failed_notice",
                 "error_description", "bare_description", "media_as_text"}

(* ------------------------ _send_single_message ------------------------- *)
\* first: the outcome of the call of the item's branch; second: of the send
\* in the handler at 590-601, made when the first error has a keyword of
\* Keywords1; third: whether the send of _handle_message_error succeeds,
\* made when an exception leaves _send_single_message.  An outcome that is
\* not asked for is left at its default.  Of the second exception only its
\* text is looked at, and only for the keywords of 622-623, so one exception
\* with such a keyword and one without stand for all.
SecondOutcomes == {Ok, Outcome(FALSE, FALSE, {"timeout"}),
                   Outcome(FALSE, FALSE, {})}
SingleEnvs ==
    {e \in [first : Outcomes, second : SecondOutcomes, third : BOOLEAN] :
        /\ (e.first.ok \/ ~Contains(e.first, Keywords1)) => e.second = Ok
        /\ (e.first.ok \/ (Contains(e.first, Keywords1) /\ e.second.ok))
              => e.third}
SingleNominal == [first |-> Ok, second |-> Ok, third |-> TRUE]

\* cloner.py:560-586: the call the item's branch makes
FirstSend(m, protected, ok) ==
    IF ~NoMedia(m) /\ ~protected
    THEN IF IsWebpage(m) THEN Send("send_message", "webpage", ok)
                         ELSE Send("send_file", "media", ok)
    ELSE IF ~NoMedia(m) /\ protected
         THEN IF IsWebpage(m)
              THEN Send("send_message", "webpage", ok)
              ELSE Send("send_message", "protected_description", ok)
         ELSE Send("send_message", "text", ok)

\* cloner.py:550-601; raised is the exception that leaves the function, Ok
\* if none does
SendSingleMessage(m, protected, env) ==
    IF env.first.ok
    THEN [sent |-> TRUE,
          media_skipped |-> ~NoMedia(m) /\ protected /\ ~IsWebpage(m),
          sends |-> <<FirstSend(m, protected, TRUE)>>,
          raised |-> Ok]
    ELSE IF Contains(env.first, Keywords1)
         THEN [sent |-> env.second.ok,
               media_skipped |-> env.second.ok,
               sends |-> <<FirstSend(m, protected, FALSE),
                           Send("send_message", "copy_failed_notice",
                                env.second.ok)>>,
               raised |-> env.second]
         ELSE [sent |-> FALSE,
               media_skipped |-> FALSE,
               sends |-> <<FirstSend(m, protected, FALSE)>>,
               raised |-> env.first]

\* cloner.py:610-647; reports counts the error lines printed
HandleMessageError(m, error, ok) ==
    LET content ==
            IF Contains(error, Keywords2)
            THEN IF m.text THEN "text" ELSE "error_description"
            ELSE IF m.text THEN "text" ELSE "bare_description"
    IN  [sent |-> ok,
         media_skipped |-> ok /\ ~NoMedia(m),
         sends |-> <<Send("send_message", content, ok)>>,
         reports |-> IF ok THEN 0 ELSE 1]

\* cloner.py:520-546: one pass of the loop of _process_messages
ProcessOne(m, protected, env) ==
    LET r == SendSingleMessage(m, protected, env)
        f == HandleMessageError(m, r.raised, env.third)
    IN  IF r.raised.ok
        THEN [sent |-> r.sent, media_skipped |-> r.media_skipped,
              media_downloaded |-> FALSE, sends |-> r.sends,
              downloads |-> 0, reports |-> 0]
        ELSE [sent |-> f.sent, media_skipped |-> f.media_skipped,
              media_downloaded |-> FALSE, sends |-> r.sends \o f.sends,
              downloads |-> 0, reports |-> f.reports]

(* ----------------- _send_message_with_media_download ------------------- *)
\* cloner.py:996-1040 with 1042-1099: the sends behind TransferResult
TransferSends(m, protected, download, env) ==
    IF ~NoMedia(m) /\ download
    THEN IF ~protected
         THEN IF env.dl = "file"
              THEN IF env.fileOk
                   THEN IF env.rmOk
                        THEN <<Send("send_file", "media", TRUE)>>
                        ELSE <<Send("send_file", "media", TRUE),
                               Send("send_message", "media_as_text",
                                    env.textOk)>>
                   ELSE <<Send("send_file", "media", FALSE),
                          Send("send_message", "media_as_text", env.textOk)>>
              ELSE <<Send("send_message", "media_as_text", env.textOk)>>
         ELSE <<Send("send_message", "protected_description", env.textOk)>>
    ELSE IF m.text
         THEN <<Send("send_message", "text", env.textOk)>>
         ELSE <<>>

\* the error lines printed at cloner.py:1025, 1039, 1064 and 1099
TransferReports(m, protected, download, env) ==
    IF ~NoMedia(m) /\ download
    THEN (IF ~protected /\ (env.dl = "raise"
                             \/ (env.dl = "file" /\ ~env.fileOk)
                             \/ (env.dl = "file" /\ ~env.rmOk))
          THEN 1 ELSE 0)
         + (IF ~env.textOk /\ (protected \/ env.dl # "file" \/ ~env.fileOk
                                \/ ~env.rmOk)
            THEN 1 ELSE 0)
    ELSE IF m.text /\ ~env.textOk THEN 1 ELSE 0

\* cloner.py:933-945: one pass of the loop of _copy_messages_complete
CompleteOne(m, protected, download, env) ==
    LET r == TransferResult(~NoMedia(m), m.text, protected, download, env)
    IN  [sent |-> r.sent, media_skipped |-> r.media_skipped,
         media_downloaded |-> r.media_downloaded,
         sends |-> TransferSends(m, protected, download, env),
         downloads |-> IF ~NoMedia(m) /\ download /\ ~protected
                       THEN 1 ELSE 0,
         reports |-> TransferReports(m, protected, download, env)]

(* ------------------------------ the run -------------------------------- *)
\* variables of the migration that no step of TransferSpec touches
restVars == <<run, clean, loaded, loadFailed, fresh, setup, wrote, copyAborted,
              removal, lastPersisted, resumeFrom, lowSent, failedLow, sent,
              prevSent, resent>>
argVars == <<resume_enabled, copy_messages, download_media, path, bind,
             listing>>
loopVars == <<idx, start_index, copied_count, skipped_media,
              downloaded_media, sends, downloads, item_result,
                  protection_error, checks, check_failed,
              lastSentId, orderOk,
              attempts, errors, flooded, faults>>

TransferInit ==
    /\ MigrationIdle
    /\ ToolIdle
    /\ KeyIdle
    /\ MediaIdle
    /\ TransferIdle

\* clone_channel is called (cloner.py:352-361)
CloneChannelCall(b, cm, l) ==
    /\ pc = "idle"
    /\ path = "none"
    /\ path' = "process"
    /\ bind' = b
    /\ copy_messages' = cm
    /\ listing' = l
    /\ pc' = "c_info"
    /\ UNCHANGED <<disk, resume_enabled, download_media, checkpoint_data,
                   new_channel, is_protected, channels, lastEnd, ret,
                   messages, failed>>
    /\ UNCHANGED <<loopVars, restVars, keyVars, mediaVars, toolVars>>

\* clone_channel_complete has created or looked up the destination and calls
\* _copy_messages_complete (cloner.py:861-869) with the checkpoint it holds
CopyMessagesCompleteCall(re, dm, start, l) ==
    /\ pc = "idle"
    /\ path = "none"
    /\ path' = "complete"
    /\ resume_enabled' = re
    /\ download_media' = dm
    /\ listing' = l
    /\ channels' = 1
    /\ new_channel' = 1
    /\ checkpoint_data' = Checkpoint(1, start)
    /\ pc' = "c_copy"
    /\ UNCHANGED <<disk, copy_messages, is_protected, lastEnd, ret, bind,
                   messages, failed>>
    /\ UNCHANGED <<loopVars, restVars, keyVars, mediaVars, toolVars>>

\* the function returns value v ("aborted": None from the handler at 408-410)
Return(how, v) ==
    /\ pc' = "t_return"
    /\ lastEnd' = how
    /\ ret' = v

\* cloner.py:380-382: an exception is caught at 408 and None is returned
GetFullChannel(ok) ==
    /\ pc = "c_info"
    /\ IF ok THEN pc' = "c_create" /\ UNCHANGED <<lastEnd, ret>>
             ELSE Return("aborted", 0)
    /\ UNCHANGED <<disk, checkpoint_data, new_channel, is_protected, channels,
                   messages, failed>>
    /\ UNCHANGED <<argVars, loopVars, restVars, keyVars, mediaVars, toolVars>>

\* cloner.py:388-396 with _create_channel (412-428)
CreateChannel(ok) ==
    /\ pc = "c_create"
    /\ IF ok
       THEN /\ channels' = channels + 1
            /\ new_channel' = channels + 1
            /\ pc' = IF bind THEN "c_username" ELSE "c_photo"
            /\ UNCHANGED <<lastEnd, ret>>
       ELSE /\ Return("aborted", 0)
            /\ UNCHANGED <<channels, new_channel>>
    /\ UNCHANGED <<disk, checkpoint_data, is_protected, messages, failed>>
    /\ UNCHANGED <<argVars, loopVars, restVars, keyVars, mediaVars, toolVars>>

\* variant: the exception of a failed request leaves the helper
ReturnsIfOk(ok) == ok

\* _set_channel_username, _copy_channel_photo (cloner.py:438-445, 455-467):
\* the body is inside try/except Exception, so the helper returns normally
\* whether the request succeeded or not
ReturnsNormally(ok) == TRUE

\* cloner.py:398-399
SetChannelUsername(ok) ==
    /\ pc = "c_username"
    /\ IF ReturnsNormally(ok)
       THEN pc' = "c_photo" /\ UNCHANGED <<lastEnd, ret>>
       ELSE Return("aborted", 0)
    /\ failed' = IF ok THEN failed ELSE failed \cup {"username"}
    /\ UNCHANGED <<disk, checkpoint_data, new_channel, is_protected, channels,
                   messages>>
    /\ UNCHANGED <<argVars, loopVars, restVars, keyVars, mediaVars, toolVars>>

\* cloner.py:401-406
CopyChannelPhoto(ok) ==
    /\ pc = "c_photo"
    /\ IF ReturnsNormally(ok)
       THEN IF copy_messages
            THEN pc' = "c_copy" /\ UNCHANGED <<lastEnd, ret>>
            ELSE Return("returned", new_channel)
       ELSE Return("aborted", 0)
    /\ failed' = IF ok THEN failed ELSE failed \cup {"photo"}
    /\ UNCHANGED <<disk, checkpoint_data, new_channel, is_protected, channels,
                   messages>>
    /\ UNCHANGED <<argVars, loopVars, restVars, keyVars, mediaVars, toolVars>>

\* what GetFullChannelRequest does for _check_content_protection: the full
\* chat has noforwards set, has it unset, has no such attribute, or the
\* request raises
ProtectionAnswers == {"noforwards", "forwards", "absent", "raise"}

\* variant: a failed request counts as a protected source
ProtectedUnlessKnown(answer) == answer \in {"noforwards", "raise"}

\* _check_content_protection (cloner.py:649-665)
CheckContentProtection(answer) == answer = "noforwards"

\* _copy_messages (cloner.py:478-498) and _copy_messages_complete (902-929)
\* up to the loop: the protection flag, the listing and the start index.  An
\* exception of the listing is caught at 497 / 980 and the function returns.
CollectAll(answer, listOk) ==
    LET collected == CollectMessages(listing)
        start == IF path = "complete" THEN GetProcessed(checkpoint_data)
                                      ELSE 0
    IN  /\ pc = "c_copy"
        /\ is_protected' = CheckContentProtection(answer)
        /\ checks' = checks + 1
        /\ check_failed' = (answer = "raise")
        /\ IF listOk
           THEN /\ messages' = collected
                /\ attempts' = [i \in 1..Len(collected) |-> 0]
                /\ start_index' = start
                /\ idx' = start
                /\ copied_count' = IF path = "complete" THEN start ELSE 0
                /\ UNCHANGED failed
                /\ IF start < Len(collected)
                   THEN pc' = "t_loop" /\ UNCHANGED <<lastEnd, ret>>
                   ELSE Return("returned", new_channel)
           ELSE /\ failed' = failed \cup {"copy"}
                /\ Return("returned", new_channel)
                /\ UNCHANGED <<messages, attempts, start_index, idx,
                               copied_count>>
        /\ UNCHANGED <<disk, checkpoint_data, new_channel, channels,
                       skipped_media, downloaded_media, sends, downloads,
                       item_result, protection_error,
                       lastSentId, orderOk, errors, flooded, faults>>
        /\ UNCHANGED <<argVars, restVars, keyVars, mediaVars, toolVars>>

\* variant: an exception that reaches the loop ends it
NextIndexAbort(j, raised, n) == IF raised THEN n ELSE j + 1

\* the for loops of cloner.py:520-546 and 931-971: every pass is inside
\* try/except Exception, so the loop goes on to the next item
NextIndex(j, raised, n) == j + 1

\* the rest of a pass for item m with outcome r: the counters (cloner.py:
\* 525-528, 543-546, 940-945), the checkpoint of _copy_messages_complete
\* (948-952) and the step to the next item; perr says that the exception the
\* item's own call raised was a content-protection error
ItemDone(m, r, raised, rate, perr) ==
    LET count == CountCopied(copied_count, r)
        due == path = "complete" /\ SaveDue(resume_enabled, count)
        next == NextIndex(idx, raised, Len(messages))
        saved == [checkpoint_data EXCEPT
                     !["messages_processed"] = SavedIndex(idx)]
    IN  /\ copied_count' = count
        /\ downloaded_media' = IF r.sent /\ r.media_downloaded
                               THEN downloaded_media + 1
                               ELSE downloaded_media
        /\ skipped_media' = IF r.sent /\ ~r.media_downloaded
                                /\ r.media_skipped
                             THEN skipped_media + 1 ELSE skipped_media
        /\ IF due
           THEN checkpoint_data' = saved /\ disk' = WholeFile(saved)
           ELSE UNCHANGED <<checkpoint_data, disk>>
        /\ sends' = r.sends
        /\ downloads' = r.downloads
        /\ item_result' = Flags(r.sent, r.media_downloaded, r.media_skipped)
        /\ protection_error' = perr
        /\ errors' = errors + r.reports
        /\ attempts' = [attempts EXCEPT ![idx + 1] = @ + 1]
        /\ orderOk' = (orderOk /\ (r.sends # <<>> => m.id > lastSentId))
        /\ lastSentId' = IF r.sends # <<>> /\ m.id > lastSentId
                         THEN m.id ELSE lastSentId
        /\ flooded' = IF rate /\ flooded = 0 THEN idx + 1 ELSE flooded
        /\ idx' = next
        /\ IF next < Len(messages)
           THEN pc' = "t_loop" /\ UNCHANGED <<lastEnd, ret>>
           ELSE Return("returned", new_channel)
        /\ UNCHANGED <<new_channel, is_protected, channels, start_index,
                       messages, failed, checks, check_failed>>
        /\ UNCHANGED <<argVars, restVars, keyVars, mediaVars, toolVars>>

\* one pass of the loop of _process_messages (cloner.py:520-546)
ProcessMessage(env) ==
    LET m == messages[idx + 1]
        r == ProcessOne(m, is_protected, env)
        nominal == ProcessOne(m, is_protected, SingleNominal)
    IN  /\ pc = "t_loop"
        /\ path = "process"
        /\ r = nominal \/ faults < MaxFaults
        /\ faults' = IF r = nominal THEN faults ELSE faults + 1
        /\ ItemDone(m, r, ~env.first.ok, ~env.first.ok /\ env.first.rate,
                    Contains(env.first, ProtectionErrors))

\* one pass of the loop of _copy_messages_complete (cloner.py:931-971); rate
\* says that an exception raised in it was a rate-limit signal
CopyMessage(env, rate) ==
    LET m == messages[idx + 1]
        r == CompleteOne(m, is_protected, download_media, env)
        nominal == CompleteOne(m, is_protected, download_media, Nominal)
    IN  /\ pc = "t_loop"
        /\ path = "complete"
        /\ r = nominal \/ faults < MaxFaults
        /\ rate => r.reports > 0
        /\ faults' = IF r = nominal THEN faults ELSE faults + 1
        /\ ItemDone(m, r, FALSE, rate, FALSE)

StartChoices == {0, 4}

\* the listings clone_channel is run on; the long listing is the one of the
\* large-file run, which goes through _copy_messages_complete
CloneListings == {MixedListing}

TransferNext ==
    \/ \E b \in BOOLEAN, cm \in BOOLEAN, l \in CloneListings :
          CloneChannelCall(b, cm, l)
    \/ \E re \in BOOLEAN, dm \in BOOLEAN, start \in StartChoices,
          l \in Listings : CopyMessagesCompleteCall(re, dm, start, l)
    \/ \E ok \in BOOLEAN : GetFullChannel(ok)
    \/ \E ok \in BOOLEAN : CreateChannel(ok)
    \/ \E ok \in BOOLEAN : SetChannelUsername(ok)
    \/ \E ok \in BOOLEAN : CopyChannelPhoto(ok)
    \/ \E answer \in ProtectionAnswers, listOk \in BOOLEAN :
          CollectAll(answer, listOk)
    \/ \E env \in SingleEnvs : ProcessMessage(env)
    \/ \E env \in Envs, rate \in BOOLEAN : CopyMessage(env, rate)

TransferSpec == TransferInit /\ [][TransferNext]_vars

(* ==================== the claims on TransferSpec ======================= *)
\* the loop has completed a pass; LastItem is the item of that pass
Processed == pc \in {"t_loop", "t_return"} /\ idx > start_index
LastItem == messages[idx]

\* C12: an item with a media attachment (other than a link preview) that is
\* processed while the protection flag is true is not downloaded, is not
\* sent as a file, and gets one destination send, which carries a text made
\* up for it; in both transfer paths and whatever the destination answers.
C12_ProtectedMediaOneDescription ==
    (Processed /\ is_protected /\ ~NoMedia(LastItem) /\ ~IsWebpage(LastItem))
        => /\ downloads = 0
           /\ \A i \in 1..Len(sends) : sends[i].call # "send_file"
           /\ Len(sends) = 1
           /\ sends[1].content \in Descriptions

\* C13: an item with text and without media gets one destination send, which
\* carries the text as it is; in both transfer paths, also when a send
\* raises.
C13_TextOnlyOneVerbatimSend ==
    (Processed /\ NoMedia(LastItem) /\ LastItem.text)
        => /\ Len(sends) = 1
           /\ sends[1].content = "text"

\* C15: in a run over 10 items (media downloads on, as by default) in which
\* the transfer of item 7 meets a rate-limit signal asking for a wait of 3,
\* and nothing else fails, the engine sleeps for that wait, all 10 items are
\* copied and no error is reported.
C15_RateLimitScenario ==
    (pc = "t_return" /\ lastEnd = "returned" /\ Len(messages) = 10
        /\ start_index = 0 /\ download_media /\ flooded = 7 /\ faults = 1)
        => /\ slept = 3
           /\ copied_count = 10
           /\ errors = 0

\* C17: a run over the 25 items of OversizedListing (20 text only, 5
\* documents of 15 MB, above the 10 MB limit) with media downloads on and
\* without remote failures ends with 25 items copied, 5 skipped (in the loop's or the media handler's
\* counter) and no error reported.
C17_OversizedScenario ==
    (pc = "t_return" /\ lastEnd = "returned" /\ Len(messages) = 25
        /\ start_index = 0 /\ download_media /\ faults = 0)
        => /\ copied_count = 25
           /\ (skipped_media = 5 \/ skipped_files = 5)
           /\ errors = 0

\* the same run under the scheduling of the event loop: the one task of the
\* migration is resumed whenever the call it awaits has returned or raised,
\* and every remote call does one of the two
TransferLive == TransferSpec /\ WF_vars(TransferNext)

\* C18: whatever the earlier items raised, the loop takes up every collected
\* item from the start index on once and no other item, and it reaches the
\* end of the list.
C18_EveryItemAttemptedOnce ==
    /\ [](pc = "t_loop" =>
            \A i \in DOMAIN attempts :
                attempts[i] = IF start_index < i /\ i <= idx THEN 1 ELSE 0)
    /\ [](pc = "t_return" =>
            \A i \in DOMAIN attempts :
                attempts[i] = IF start_index < i THEN 1 ELSE 0)
    /\ (pc = "t_loop" ~> (pc = "t_return" /\ idx = Len(messages)))

C18_Witness ==
    /\ pc = "t_return"
    /\ path = "process"
    /\ Len(messages) = ListLen
    /\ errors > 0
    /\ copied_count = ListLen - 1
    /\ attempts[ListLen] = 1
    /\ sends[1].ok

\* C19: clone_channel creates at most one destination container, and once
\* it has created one it returns that container and not None, although the
\* username request, the photo copy, the listing or item sends failed.
C19_CreatedContainerReturned ==
    path = "process" =>
        /\ channels <= 1
        /\ (pc = "t_return" /\ channels = 1)
               => /\ lastEnd = "returned"
                  /\ ret = new_channel
                  /\ ret # 0

C19_Witness ==
    /\ path = "process"
    /\ pc = "t_return"
    /\ failed = {"username", "photo", "copy"}
    /\ channels = 1
    /\ ret = 1

\* C20: the collected list is the listing reversed, so its items are in
\* ascending order of age-rank (oldest first); the loop works on one item
\* per pass, and every send of a pass goes out after all sends of the
\* passes before it, which were for older items.
C20_SendsInChronologicalOrder ==
    /\ orderOk
    /\ \A i, j \in 1..Len(messages) :
           i < j => messages[i].id < messages[j].id
    /\ (Processed /\ sends # <<>>) => lastSentId = LastItem.id

C20_Witness ==
    /\ pc = "t_loop"
    /\ idx >= 3
    /\ copied_count >= 3
    /\ sends # <<>>
    /\ lastSentId = messages[idx].id
    /\ messages[1].id < lastSentId

\* C25: on the download path, for an item with media while the protection
\* flag is false and downloading is on: when the download gave a file (a
\* file send was issued) the item went out by that one file send and the
\* result says media_downloaded; otherwise one description text went out
\* and the result says media_skipped; the result never says both.
C25_FileOrOneDescription ==
    (Processed /\ path = "complete" /\ ~is_protected /\ download_media
        /\ ~NoMedia(LastItem))
        => /\ ~(item_result.media_downloaded /\ item_result.media_skipped)
           /\ Len(sends) = 1
           /\ sends[1].ok
           /\ IF sends[1].call = "send_file"
              THEN /\ sends[1].content = "media"
                   /\ item_result.media_downloaded
              ELSE /\ sends[1].content = "media_as_text"
                   /\ item_result.media_skipped

\* C26: in a run without remote failures, an item whose attachment is a
\* link preview goes out, in both transfer paths and for both values of the
\* protection flag, as one text message that is the link composition; it
\* is not downloaded, not sent as a file and not marked as skipped or
\* downloaded media.
C26_LinkPreviewAsText ==
    (Processed /\ faults = 0 /\ IsWebpage(LastItem))
        => /\ downloads = 0
           /\ Len(sends) = 1
           /\ sends[1].call = "send_message"
           /\ sends[1].content = "webpage"
           /\ item_result = Flags(TRUE, FALSE, FALSE)

\* C28: in _send_single_message, when the send of an item raises a
\* content-protection error, the send is not made again and exactly one
\* further message, the fallback text, goes to the destination; the item is
\* reported sent and media_skipped, is counted as copied, and no error is
\* printed for it.
C28_ProtectionErrorOneFallback ==
    (Processed /\ path = "process" /\ protection_error)
        => /\ Len(sends) = 2
           /\ ~sends[1].ok
           /\ sends[2] = Send("send_message", "copy_failed_notice", TRUE)
           /\ item_result = Flags(TRUE, FALSE, TRUE)
           /\ errors = 0

\* C29: a run of either migration loop asks for the source's protection
\* once, before its first item is sent; when that request fails the flag is
\* false; and the flag keeps its value from item to item.
C29_ProtectionCheckedOnce ==
    /\ [](/\ checks <= 1
          /\ Processed => checks = 1
          /\ (checks = 1 /\ check_failed) => ~is_protected)
    /\ [][pc = "t_loop" => is_protected' = is_protected]_vars

C29_Witness ==
    /\ pc = "t_return" /\ idx = Len(messages) /\ idx >= 2
    /\ checks = 1 /\ check_failed /\ ~is_protected
    /\ path = "complete" /\ download_media
    /\ downloaded_media >= 1

\* C32: in a run of either loop every item is passed at most once, and of
\* the sends made for an item each one but the last was refused by the
\* destination; so at most one send of an item is accepted.
C32_AtMostOneSendAccepted ==
    /\ \A i \in DOMAIN attempts : attempts[i] <= 1
    /\ Processed
          => \A i \in 1..Len(sends) :
                \A j \in 1..Len(sends) : i < j => ~sends[i].ok

(* ======================================================================= *)
(* MediaSpec: MediaHandler.download_and_send_media                         *)
(* (src/lib/media_handler.py:44-112) with _validate_file and the retry     *)
(* loops of _download_media_with_retry and _upload_media_with_retry, over  *)
(* several calls on one handler.  Sizes are in MB.                         *)
(* ======================================================================= *)
\* config.max_file_size
MaxFileSize == 2
\* largest config.max_retries
MaxRetries == 3
\* longest wait a rate-limit signal asks for
MaxWait == 3
\* calls of download_and_send_media on the handler
MaxCalls == 2

\* MediaHandler.__init__ (media_handler.py:26-42): the handler keeps the
\* config it is given, and nothing in the module assigns to it afterwards
MediaInit ==
    /\ MigrationIdle
    /\ ToolIdle
    /\ KeyIdle
    /\ TransferIdle
    /\ max_retries \in 1..MaxRetries
    /\ allow_all_extensions \in BOOLEAN
    /\ m_pc = "m_idle"
    /\ size = 0
    /\ attempt = 0
    /\ total_downloaded = 0
    /\ total_uploaded = 0
    /\ failed_downloads = 0
    /\ skipped_files = 0
    /\ temp_file = FALSE
    /\ m_ret = "none"
    /\ slept = 0
    /\ calls = 0
    /\ before = Stats(0, 0, 0, 0)
    /\ dl_calls = 0
    /\ up_calls = 0
    /\ notices = 0
    /\ only_rate = TRUE
    /\ checked = FALSE
    /\ format = "unasked"
    /\ undelayed = FALSE

\* the call returns v
MediaReturn(v) ==
    /\ m_pc' = "m_done"
    /\ m_ret' = v

\* media_handler.py:61-71: the call, up to _validate_file.  kind is the kind
\* of message.media, infoOk is FALSE when _get_file_info returns None; a
\* message whose file information is not read has no size to speak of
DownloadAndSendMedia(kind, sz, infoOk) ==
    /\ m_pc \in {"m_idle", "m_done"}
    /\ kind \in {"none", "webpage"} => (infoOk /\ sz = 0)
    /\ ~infoOk => sz = 0
    /\ calls < MaxCalls
    /\ calls' = calls + 1
    /\ before' = Stats(total_downloaded, total_uploaded, failed_downloads,
                       skipped_files)
    /\ size' = sz
    /\ attempt' = 0
    /\ dl_calls' = 0
    /\ up_calls' = 0
    /\ notices' = 0
    /\ only_rate' = TRUE
    /\ checked' = FALSE
    /\ format' = "unasked"
    /\ slept' = 0
    /\ undelayed' = FALSE
    /\ IF kind = "none" THEN MediaReturn("False")
       ELSE IF kind = "webpage" THEN MediaReturn("True")
       ELSE IF ~infoOk THEN MediaReturn("False")
       ELSE m_pc' = "m_validate" /\ m_ret' = "none"
    /\ UNCHANGED <<total_downloaded, total_uploaded, failed_downloads,
                   skipped_files, temp_file, max_retries,
                   allow_all_extensions>>
    /\ UNCHANGED <<migrationVars, keyVars, transferVars, toolVars>>

\* variant: a file of exactly the limit is rejected too
OversizedOrEqual(sz, limit) == sz >= limit

\* file_info['size'] > self.config.max_file_size  (media_handler.py:121)
Oversized(sz, limit) == sz > limit

\* _validate_file (media_handler.py:114-138) and what the caller does with
\* its answer (76-77, 109-112).  fmt is what _is_supported_format does when
\* it is asked: it says yes, says no, or raises
ValidateFile(fmt) ==
    /\ m_pc = "m_validate"
    /\ checked' = TRUE
    /\ IF Oversized(size, MaxFileSize)
       THEN /\ fmt = "unasked"
            /\ notices' = notices + 1
            /\ skipped_files' = skipped_files + 1
            /\ MediaReturn("False")
            /\ UNCHANGED failed_downloads
       ELSE IF ~allow_all_extensions
       THEN /\ fmt # "unasked"
            /\ notices' = IF fmt = "no" THEN notices + 1 ELSE notices
            /\ skipped_files' = IF fmt = "no" THEN skipped_files + 1
                                ELSE skipped_files
            /\ failed_downloads' = IF fmt = "raise"
                                   THEN failed_downloads + 1
                                   ELSE failed_downloads
            /\ IF fmt = "yes" THEN m_pc' = "m_download" /\ m_ret' = "none"
                              ELSE MediaReturn("False")
       ELSE /\ fmt = "unasked"
            /\ m_pc' = "m_download"
            /\ m_ret' = "none"
            /\ UNCHANGED <<notices, skipped_files, failed_downloads>>
    /\ format' = fmt
    /\ UNCHANGED <<size, max_retries, allow_all_extensions, attempt,
                   total_downloaded, total_uploaded, temp_file, slept, calls,
                   before, dl_calls, up_calls, only_rate, undelayed>>
    /\ UNCHANGED <<migrationVars, keyVars, transferVars, toolVars>>

\* what one remote call of a retry loop does
DownloadOutcomes == {"file", "corrupt", "nothing", "flood", "stale",
                     "timeout", "error"}
UploadOutcomes == {"sent", "flood", "error"}
Waits == 1..MaxWait

\* variant: no sleep of retry_delay after a timeout
RetryDelayNotOnTimeout(failure, last) ==
    \/ failure = "stale"
    \/ failure \in {"nothing", "error"} /\ ~last

\* whether the pass that ends with this failure sleeps for retry_delay; last
\* says that it was the pass of the last value of the range
\* (media_handler.py:249-265, 315-319)
RetryDelay(failure, last) ==
    \/ failure = "stale"
    \/ failure \in {"nothing", "timeout", "error"} /\ ~last

\* the failures that take an attempt and are followed by the fixed delay
PlainFailures == {"timeout", "stale", "error"}

\* for attempt in range(self.config.max_retries): every way round the loop,
\* the continue of the rate-limit handler included, takes the next value of
\* the range (media_handler.py:204, 247, 254, 280, 313)
NextAttempt(a) == a + 1

\* one pass of the loop of _download_media_with_retry (media_handler.py:
\* 204-269) and, when the loop is left, the caller's lines 85-87; s is the
\* wait a rate-limit signal carries
DownloadAttempt(outcome, s) ==
    /\ m_pc = "m_download"
    /\ outcome = "flood" \/ s = 1
    /\ dl_calls' = dl_calls + 1
    /\ total_downloaded' = IF outcome \in {"file", "corrupt"}
                           THEN total_downloaded + 1 ELSE total_downloaded
    /\ temp_file' = (temp_file \/ outcome \in {"file", "corrupt"})
    /\ slept' = IF outcome = "flood" THEN s ELSE slept
    /\ only_rate' = (only_rate /\ outcome \in {"file", "flood"})
    /\ undelayed' = (undelayed
                      \/ (/\ outcome \in PlainFailures
                          /\ NextAttempt(attempt) < max_retries
                          /\ ~RetryDelay(outcome, FALSE)))
    /\ IF outcome = "file"
       THEN /\ m_pc' = "m_upload"
            /\ attempt' = 0
            /\ UNCHANGED <<m_ret, failed_downloads>>
       ELSE IF NextAttempt(attempt) < max_retries
       THEN /\ attempt' = NextAttempt(attempt)
            /\ UNCHANGED <<m_pc, m_ret, failed_downloads>>
       ELSE /\ failed_downloads' = failed_downloads + 1
            /\ MediaReturn("False")
            /\ UNCHANGED attempt
    /\ UNCHANGED <<size, max_retries, allow_all_extensions, total_uploaded,
                   skipped_files, calls, before, up_calls, notices, checked,
                   format>>
    /\ UNCHANGED <<migrationVars, keyVars, transferVars, toolVars>>

\* one pass of the loop of _upload_media_with_retry (media_handler.py:
\* 280-323) and, when the function returns, the caller's lines 97-107
UploadAttempt(outcome, s) ==
    /\ m_pc = "m_upload"
    /\ outcome = "flood" \/ s = 1
    /\ up_calls' = up_calls + 1
    /\ slept' = IF outcome = "flood" THEN s ELSE slept
    /\ only_rate' = (only_rate /\ outcome \in {"sent", "flood"})
    /\ undelayed' = (undelayed
                      \/ (/\ outcome \in PlainFailures
                          /\ NextAttempt(attempt) < max_retries
                          /\ ~RetryDelay(outcome, FALSE)))
    /\ IF outcome = "sent"
       THEN /\ total_uploaded' = total_uploaded + 1
            /\ temp_file' = FALSE
            /\ MediaReturn("True")
            /\ UNCHANGED <<attempt, failed_downloads>>
       ELSE IF NextAttempt(attempt) < max_retries
       THEN /\ attempt' = NextAttempt(attempt)
            /\ UNCHANGED <<m_pc, m_ret, failed_downloads, total_uploaded,
                           temp_file>>
       ELSE /\ failed_downloads' = failed_downloads + 1
            /\ temp_file' = FALSE
            /\ MediaReturn("False")
            /\ UNCHANGED <<attempt, total_uploaded>>
    /\ UNCHANGED <<size, max_retries, allow_all_extensions, total_downloaded,
                   skipped_files, calls, before, dl_calls, notices, checked,
                   format>>
    /\ UNCHANGED <<migrationVars, keyVars, transferVars, toolVars>>

MediaKinds == {"none", "webpage", "photo", "document"}

MediaNext ==
    \/ \E kind \in MediaKinds, sz \in 0..(MaxFileSize + 1),
          infoOk \in BOOLEAN : DownloadAndSendMedia(kind, sz, infoOk)
    \/ \E fmt \in {"unasked", "yes", "no", "raise"} : ValidateFile(fmt)
    \/ \E outcome \in DownloadOutcomes, s \in Waits :
          DownloadAttempt(outcome, s)
    \/ \E outcome \in UploadOutcomes, s \in Waits : UploadAttempt(outcome, s)

MediaSpec == MediaInit /\ [][MediaNext]_vars

(* ====================== the claims on MediaSpec ======================== *)
\* C14: a call of download_and_send_media whose remote failures were all
\* rate-limit signals is reported as a success: a rate-limit signal takes
\* none of the max_retries attempts.
C14_RateLimitNotCounted ==
    (m_pc = "m_done" /\ dl_calls > 0 /\ only_rate) => m_ret = "True"

\* C16 as stated: a call that reaches _validate_file with a size above
\* max_file_size downloads nothing, uploads nothing, sends one notice, adds
\* one to the skip counter and leaves the failure and upload counters; with
\* a size up to max_file_size (0 included) the item is not skipped.
C16_SkippedOnlyWhenOversized ==
    (m_pc = "m_done" /\ checked) =>
        IF size > MaxFileSize
        THEN /\ dl_calls = 0
             /\ up_calls = 0
             /\ notices = 1
             /\ skipped_files = before.skipped + 1
             /\ failed_downloads = before.failed
             /\ total_uploaded = before.uploaded
        ELSE skipped_files = before.skipped

\* C16 as amended: the same, but an item of a size up to max_file_size is
\* still skipped, with a notice and without a download, when
\* allow_all_extensions is false and its format is not a supported one.
C16_SkippedWhenOversizedOrUnsupported ==
    (m_pc = "m_done" /\ checked) =>
        IF size > MaxFileSize
        THEN /\ dl_calls = 0
             /\ up_calls = 0
             /\ notices = 1
             /\ skipped_files = before.skipped + 1
             /\ failed_downloads = before.failed
             /\ total_uploaded = before.uploaded
        ELSE IF ~allow_all_extensions /\ format = "no"
        THEN /\ dl_calls = 0
             /\ notices = 1
             /\ skipped_files = before.skipped + 1
        ELSE skipped_files = before.skipped

C16_Witness ==
    /\ m_pc = "m_done"
    /\ checked
    /\ size = MaxFileSize + 1
    /\ before.uploaded = 1
    /\ total_uploaded = 1
    /\ skipped_files = 1
    /\ notices = 1

\* Each remote call of the two loops ends: the download is bounded by
\* asyncio.wait_for (media_handler.py:218-225), the sleeps are finite, and the
\* event loop resumes the coroutine; so a step that can be taken is taken.
MediaLive == MediaSpec /\ WF_vars(MediaNext)

\* in the call in hand no attempt met a rate-limit signal
NoRateLimit == slept = 0

\* C27: a call of the handler in which no rate-limit signal occurs makes at
\* most max_retries download attempts and at most max_retries upload
\* attempts; between an attempt that met a timeout, a stale reference or
\* another error and the attempt after it the loop sleeps for retry_delay;
\* when max_retries attempts of a loop have all failed the call answers
\* False and does not raise; and a call that entered a loop always returns.
C27_RetryLoopsTerminate ==
    /\ [](NoRateLimit
            => /\ dl_calls <= max_retries
               /\ up_calls <= max_retries
               /\ ~undelayed
               /\ (m_pc = "m_done" /\ dl_calls = max_retries /\ up_calls = 0)
                      => m_ret = "False"
               /\ (m_pc = "m_done" /\ up_calls = max_retries
                      /\ total_uploaded = before.uploaded)
                      => m_ret = "False")
    /\ (m_pc \in {"m_download", "m_upload"}) ~> (m_pc = "m_done")

C27_Witness ==
    /\ m_pc = "m_done"
    /\ NoRateLimit
    /\ max_retries = MaxRetries
    /\ dl_calls = 1
    /\ up_calls = MaxRetries
    /\ total_uploaded = before.uploaded
    /\ ~only_rate
    /\ m_ret = "False"

\* C36: when download_and_send_media has returned, no file that a download
\* wrote is left in the temp directory.
C36_NoTempFileLeft ==
    m_pc = "m_done" => ~temp_file

\* C37: a call of download_and_send_media adds one to at most one of
\* total_uploaded, failed_downloads and skipped_files and nothing to the
\* others, adds at most one to total_downloaded, returns True only if it
\* added one to total_uploaded or made no download (a link preview), and
\* total_uploaded is never above total_downloaded.
C37_StatisticsConsistent ==
    /\ total_uploaded <= total_downloaded
    /\ m_pc = "m_done"
          => /\ (total_uploaded - before.uploaded)
                   + (failed_downloads - before.failed)
                   + (skipped_files - before.skipped) <= 1
             /\ total_downloaded - before.downloaded <= 1
             /\ m_ret = "True"
                   => (total_uploaded = before.uploaded + 1 \/ dl_calls = 0)

(* ======================================================================= *)
(* RelatedSpec: _find_related_channels (src/lib/cloner.py:236-276) for one *)
(* dialog, with _is_channel_related and _is_channel_linked_to_group.       *)
(* Names are sequences of characters.                                      *)
(* ======================================================================= *)
\* longest name
MaxNameLen == 3
NameChars == {"a", "A", "b", " "}
Names == UNION {[1..n -> NameChars] : n \in 0..MaxNameLen}

\* str.lower()
Lower(s) == [i \in 1..Len(s) |-> IF s[i] = "A" THEN "a" ELSE s[i]]

\* str.split(): the maximal runs of characters other than whitespace
Split(s) ==
    {SubSeq(s, i, j) : <<i, j>> \in
        {p \in (1..Len(s)) \X (1..Len(s)) :
            /\ p[1] <= p[2]
            /\ \A k \in p[1]..p[2] : s[k] # " "
            /\ (p[1] = 1 \/ s[p[1] - 1] = " ")
            /\ (p[2] = Len(s) \/ s[p[2] + 1] = " ")}}

\* word in text, for two strings
In(word, text) ==
    \E i \in 0..(Len(text) - Len(word)) :
        SubSeq(text, i + 1, i + Len(word)) = word

\* _is_channel_related (cloner.py:278-283)
IsChannelRelated(name, base_words) ==
    Cardinality({word \in base_words : In(word, Lower(name))}) >= 1

RelatedInit ==
    /\ MigrationIdle
    /\ KeyIdle
    /\ TransferIdle
    /\ MediaIdle
    /\ ProgressIdle
    /\ FormatIdle
    /\ SuperIdle
    /\ r_pc = "r_dialog"
    /\ base_name \in Names
    /\ channel_name \in Names
    /\ broadcast \in BOOLEAN
    /\ linked_chat \in BOOLEAN
    /\ related = FALSE

\* cloner.py:252-262: the test of the name, for a broadcast dialog
NameTest ==
    /\ r_pc = "r_dialog"
    /\ IF ~broadcast
       THEN r_pc' = "r_done" /\ UNCHANGED related
       ELSE IF IsChannelRelated(channel_name, Split(Lower(base_name)))
       THEN r_pc' = "r_done" /\ related' = TRUE
       ELSE r_pc' = "r_link" /\ UNCHANGED related
    /\ UNCHANGED <<base_name, channel_name, broadcast, linked_chat>>
    /\ UNCHANGED exceptRelated

\* cloner.py:264-270 with _is_channel_linked_to_group (296-307): a request
\* that fails makes the answer False
LinkTest(ok) ==
    /\ r_pc = "r_link"
    /\ related' = (ok /\ linked_chat)
    /\ r_pc' = IF ok THEN "r_done" ELSE "r_unanswered"
    /\ UNCHANGED <<base_name, channel_name, broadcast, linked_chat>>
    /\ UNCHANGED exceptRelated

RelatedNext ==
    \/ NameTest
    \/ \E ok \in BOOLEAN : LinkTest(ok)

RelatedSpec == RelatedInit /\ [][RelatedNext]_vars

\* the two names have a word in common, letter case aside
SharesToken(a, b) == Split(Lower(a)) \cap Split(Lower(b)) # {}

\* C21: a broadcast dialog whose link request, if made, was answered is
\* classified as related exactly when the group is linked to it or its name
\* and the group's name have a whitespace-delimited word in common, letter
\* case aside.
C21_RelatedIffLinkedOrToken ==
    (r_pc = "r_done" /\ broadcast)
        => (related <=> (linked_chat \/ SharesToken(base_name, channel_name)))

(* ======================================================================= *)
(* ProgressSpec: MediaDownloader.download_dialog_media                     *)
(* (src/lib/downloader.py:30-140) with _save_progress.  The items of the   *)
(* dialog have the ids 1, 2, ... in the order iter_messages(reverse=True)  *)
(* yields them.                                                            *)
(* ======================================================================= *)
\* items in the dialog
StreamLen == 52
\* items whose media is neither a photo nor a video
MaxOther == 2
\* downloader.py:82, 113, 125  processed_since_save >= 50
ProgressEvery == 50
\* last_id of the progress file a run can find
StartId == 3
\* calls of download_dialog_media for the dialog
MaxDialogRuns == 2

Max(a, b) == IF a > b THEN a ELSE b

\* the kind of the item with identifier id, unless it is one of the others
DialogKind(id) ==
    IF id % 3 = 0 THEN "none" ELSE IF id % 3 = 1 THEN "image" ELSE "video"

\* downloader.py:62-72: the last_id the run starts from
LoadProgress(f) == IF f \in {NoProgress, Garbled} THEN 0 ELSE f

ProgressInit ==
    /\ MigrationIdle
    /\ UnitIdle

\* downloader.py:46-74.  The first call finds the file f, left by whatever
\* ran before; a later call finds the file as the call before left it
DownloadDialogMedia(wi, wv, f) ==
    /\ d_pc \in {"d_idle", "d_done"}
    /\ d_runs < MaxDialogRuns
    /\ d_runs > 0 => f = progress_file
    /\ d_runs' = d_runs + 1
    /\ d_pc' = "d_loop"
    /\ want_images' = wi
    /\ want_videos' = wv
    /\ progress_file' = f
    /\ last_id' = LoadProgress(f)
    /\ highest' = LoadProgress(f)
    /\ saved_highest' = LoadProgress(f)
    /\ best_persisted' = Max(best_persisted, LoadProgress(f))
    /\ processed_since_save' = 0
    /\ count_total' = 0
    /\ count_downloaded' = 0
    /\ count_skipped' = 0
    /\ count_errors' = 0
    /\ UNCHANGED <<others, d_faults, write_failed, refetched>>
    /\ UNCHANGED exceptProgress

\* _save_progress (downloader.py:155-161) of value v while the highest id
\* taken is h: a write that raises is passed over
SaveProgress(v, h, writeOk) ==
    IF writeOk
    THEN /\ progress_file' = v
         /\ saved_highest' = h
         /\ best_persisted' = Max(best_persisted, v)
         /\ UNCHANGED write_failed
    ELSE /\ write_failed' = TRUE
         /\ UNCHANGED <<progress_file, saved_highest, best_persisted>>

\* one pass of the loop (downloader.py:75-127) for the item id; other says
\* that its media is neither photo nor video, outcome what download_media
\* does.  An item that is passed over (downloader.py:95-99) leaves last_id
\* and processed_since_save as they are
Inspect(other, outcome, writeOk) ==
    LET id == highest + 1
        kind == IF other THEN "other" ELSE DialogKind(id)
        passed == \/ kind = "other"
                  \/ (kind = "image" /\ ~want_images)
                  \/ (kind = "video" /\ ~want_videos)
        fetched == kind \in {"image", "video"} /\ ~passed
        fault == (fetched /\ outcome # "path") \/ ~writeOk
        due == ~passed /\ processed_since_save + 1 >= ProgressEvery
    IN  /\ d_pc = "d_loop"
        /\ highest < StreamLen
        /\ other => others < MaxOther
        /\ ~fetched => outcome = "path"
        /\ ~due => writeOk
        /\ fault => d_faults < MaxFaults
        /\ d_faults' = IF fault THEN d_faults + 1 ELSE d_faults
        /\ others' = IF other THEN others + 1 ELSE others
        /\ highest' = id
        /\ count_total' = IF fetched THEN count_total + 1 ELSE count_total
        /\ count_downloaded' = IF fetched /\ outcome = "path"
                               THEN count_downloaded + 1
                               ELSE count_downloaded
        /\ count_skipped' = IF fetched /\ outcome = "nothing"
                            THEN count_skipped + 1 ELSE count_skipped
        /\ count_errors' = IF fetched /\ outcome = "raise"
                           THEN count_errors + 1 ELSE count_errors
        /\ last_id' = IF passed THEN last_id ELSE Max(last_id, id)
        /\ processed_since_save' =
               IF passed THEN processed_since_save
               ELSE IF due THEN 0 ELSE processed_since_save + 1
        /\ IF due THEN SaveProgress(last_id', id, writeOk)
                  ELSE UNCHANGED <<progress_file, saved_highest,
                                   write_failed, best_persisted>>
        /\ refetched' = (refetched \/ (fetched /\ id <= best_persisted))
        /\ UNCHANGED <<d_pc, want_images, want_videos, d_runs>>
        /\ UNCHANGED exceptProgress

\* the stream has ended: downloader.py:129-140
EndOfStream(writeOk) ==
    /\ d_pc = "d_loop"
    /\ ~writeOk => d_faults < MaxFaults
    /\ d_faults' = IF writeOk THEN d_faults ELSE d_faults + 1
    /\ SaveProgress(last_id, highest, writeOk)
    /\ d_pc' = "d_done"
    /\ UNCHANGED <<want_images, want_videos, last_id, processed_since_save,
                   count_total, count_downloaded, count_skipped,
                   count_errors, highest, others, d_runs, refetched>>
    /\ UNCHANGED exceptProgress

\* the process is terminated in the loop, between two items, or, when torn,
\* after the stream has ended and inside the write_text of the save at
\* downloader.py:129, which has truncated the file and not yet written it.
\* Nothing of the run is left but the file.
Interrupt(torn) ==
    /\ d_pc = "d_loop"
    /\ d_pc' = "d_idle"
    /\ progress_file' = IF torn THEN Garbled ELSE progress_file
    /\ last_id' = 0
    /\ highest' = 0
    /\ saved_highest' = 0
    /\ processed_since_save' = 0
    /\ count_total' = 0
    /\ count_downloaded' = 0
    /\ count_skipped' = 0
    /\ count_errors' = 0
    /\ UNCHANGED <<want_images, want_videos, others, d_faults, write_failed,
                   d_runs, best_persisted, refetched>>
    /\ UNCHANGED exceptProgress

ProgressNext ==
    \/ \E wi \in BOOLEAN, wv \in BOOLEAN,
          f \in {NoProgress, Garbled, StartId} : DownloadDialogMedia(wi, wv, f)
    \/ \E other \in BOOLEAN, outcome \in {"path", "nothing", "raise"},
          writeOk \in BOOLEAN : Inspect(other, outcome, writeOk)
    \/ \E writeOk \in BOOLEAN : EndOfStream(writeOk)
    \/ \E torn \in BOOLEAN : Interrupt(torn)

ProgressSpec == ProgressInit /\ [][ProgressNext]_vars

\* the last_id on disk, 0 when there is none
Persisted == LoadProgress(progress_file)

\* C22: in a run for photos and videos in which no write of the progress
\* file has failed, the last_id on disk is the highest id the loop had taken
\* when it was written, at most 50 items the loop has taken have an id
\* above it, and after the end of the stream it is the highest id the loop
\* has taken.
C22_ProgressIsHighestInspected ==
    (d_pc \in {"d_loop", "d_done"} /\ ~write_failed
        /\ want_images /\ want_videos)
        => /\ Persisted = saved_highest
           /\ highest - Persisted <= ProgressEvery
           /\ d_pc = "d_done" => Persisted = highest

\* C35: over the calls for one dialog, interrupted or not, download_media
\* is never called for an item whose id is not above a last_id that a
\* complete progress file has held, and a progress file that is written
\* never holds a last_id below one held before.
C35_NoRefetchNoDecrease ==
    /\ ~refetched
    /\ progress_file \notin {NoProgress, Garbled}
          => progress_file >= best_persisted

(* ======================================================================= *)
(* FormatSpec: MediaHandler._format_size (src/lib/media_handler.py:        *)
(* 368-381).  A size is a pair (num, exp) for num * 1024^exp, so that      *)
(* sizes up to the petabyte range have a machine integer: the divisions by *)
(* 1024 of the loop are exact on such numbers, in the program's floating   *)
(* point too.                                                              *)
(* ======================================================================= *)
\* arguments are num * 1024^exp for num up to MaxNum and exp up to MaxExp
MaxNum == 2100
MaxExp == 4
\* media_handler.py:377
Kilo == 1024

\* size_names
SizeNames == <<"B", "KB", "MB", "GB", "TB">>

RECURSIVE Pow(_)
\* 1024 ** k for the k the machine integers hold
Pow(k) == IF k = 0 THEN 1 ELSE Kilo * Pow(k - 1)

\* the arguments taken: all in range, and some around one megabyte
Sizes ==
    {Scaled(num, exp) : num \in 0..MaxNum, exp \in 0..MaxExp}
        \cup {Scaled(num, 0) : num \in {1048575, 1048576, 1048577}}

\* variant: the loop goes on only above 1024
AboveKilo(v) ==
    IF v.exp >= 1 THEN v.num >= 1 /\ (v.exp > 1 \/ v.num > 1)
    ELSE v.num > Pow(1 - v.exp)

\* size >= 1024
AtLeastKilo(v) ==
    IF v.exp >= 1 THEN v.num >= 1 ELSE v.num >= Pow(1 - v.exp)

\* the integer nearest to a / b, the even one of two equally near: the
\* rounding of the format specification .1f
RoundHalfEven(a, b) ==
    LET q == a \div b
        r == a % b
    IN  IF 2 * r > b \/ (2 * r = b /\ q % 2 = 1) THEN q + 1 ELSE q

\* the number of tenths f"{size:.1f}" prints for the size v
Tenths(v) ==
    IF v.exp >= 0 THEN 10 * v.num * Pow(v.exp)
    ELSE RoundHalfEven(10 * v.num, Pow(0 - v.exp))

FormatInit ==
    /\ MigrationIdle
    /\ KeyIdle
    /\ TransferIdle
    /\ MediaIdle
    /\ RelatedIdle
    /\ ProgressIdle
    /\ SuperIdle
    /\ f_pc = "f_called"
    /\ size_bytes \in Sizes
    /\ f_size = Scaled(0, 0)
    /\ f_i = 0
    /\ f_text = Text(0, <<>>, "")

\* media_handler.py:370-375
FormatSizeCall ==
    /\ f_pc = "f_called"
    /\ IF size_bytes.num = 0
       THEN /\ f_text' = Text(0, <<>>, "B")
            /\ f_pc' = "f_done"
            /\ UNCHANGED <<f_size, f_i>>
       ELSE /\ f_size' = size_bytes
            /\ f_i' = 0
            /\ f_pc' = "f_loop"
            /\ UNCHANGED f_text
    /\ UNCHANGED size_bytes
    /\ UNCHANGED exceptFormat

\* one pass of the loop at media_handler.py:377-379
Divide ==
    /\ f_pc = "f_loop"
    /\ AtLeastKilo(f_size) /\ f_i < Len(SizeNames) - 1
    /\ f_size' = Scaled(f_size.num, f_size.exp - 1)
    /\ f_i' = f_i + 1
    /\ UNCHANGED <<f_pc, size_bytes, f_text>>
    /\ UNCHANGED exceptFormat

\* media_handler.py:381
Render ==
    /\ f_pc = "f_loop"
    /\ ~(AtLeastKilo(f_size) /\ f_i < Len(SizeNames) - 1)
    /\ f_text' = Text(Tenths(f_size) \div 10, <<Tenths(f_size) % 10>>,
                      SizeNames[f_i + 1])
    /\ f_pc' = "f_done"
    /\ UNCHANGED <<size_bytes, f_size, f_i>>
    /\ UNCHANGED exceptFormat

FormatNext ==
    \/ FormatSizeCall
    \/ Divide
    \/ Render

FormatSpec == FormatInit /\ [][FormatNext]_vars

\* num * 1024^exp >= 1024^u
AtLeastUnit(v, u) ==
    IF v.exp >= u THEN v.num >= 1
    ELSE u - v.exp <= 3 /\ v.num >= Pow(u - v.exp)

\* the largest unit, TB at most, of which the size is at least one
UnitOf(v) ==
    CHOOSE u \in 0..4 :
        /\ AtLeastUnit(v, u)
        /\ \A w \in (u + 1)..4 : ~AtLeastUnit(v, w)

\* C23: 0 bytes give "0 B"; any other size is given in the largest of the
\* units B, KB, MB, GB, TB (powers of 1024) of which it is at least one,
\* with one decimal digit, and the number printed is off the size in that
\* unit by at most half a tenth; 1536 gives "1.5 KB", 1048576 "1.0 MB".
C23_BinaryUnitsOneDecimal ==
    f_pc = "f_done" =>
        LET v == size_bytes
            u == UnitOf(v)
            tenths == 10 * f_text.whole + f_text.decimals[1]
        IN  /\ v.num = 0 => f_text = Text(0, <<>>, "B")
            /\ v.num > 0 =>
                  /\ f_text.unit = SizeNames[u + 1]
                  /\ Len(f_text.decimals) = 1
                  /\ f_text.decimals[1] \in 0..9
                  /\ IF v.exp >= u
                     THEN tenths = 10 * v.num * Pow(v.exp - u)
                     ELSE LET d == tenths * Pow(u - v.exp) - 10 * v.num
                          IN  2 * d <= Pow(u - v.exp)
                              /\ 0 - 2 * d <= Pow(u - v.exp)
            /\ v = Scaled(1536, 0) => f_text = Text(1, <<5>>, "KB")
            /\ v = Scaled(1048576, 0) => f_text = Text(1, <<0>>, "MB")

C23_Witness ==
    /\ f_pc = "f_done"
    /\ size_bytes = Scaled(1536, 0)
    /\ f_i = 1
    /\ f_text = Text(1, <<5>>, "KB")

(* ======================================================================= *)
(* SuperSpec: clone_supergroup_with_channels (src/lib/cloner.py:100-155)   *)
(* with _clone_related_channels (174-212) and _link_cloned_channels with   *)
(* _announce_linked_channel (309-350).  A related dialog is named by its   *)
(* position in the list _find_related_channels returned, and its clone by  *)
(* the same number.                                                        *)
(* ======================================================================= *)
\* most dialogs _find_related_channels returns
MaxRelated == 4

SuperInit ==
    /\ MigrationIdle
    /\ KeyIdle
    /\ TransferIdle
    /\ MediaIdle
    /\ RelatedIdle
    /\ ProgressIdle
    /\ FormatIdle
    /\ SuperIdle

\* the call returns results (cloner.py:129, 150)
SuperReturn(r) ==
    /\ s_pc' = "s_done"
    /\ s_ret' = r

\* variant: the call goes on without a main group
NeverMissing(main_group) == FALSE

\* if not main_group  (cloner.py:128)
Missing(main_group) == main_group = 0

\* cloner.py:127-131 with _clone_main_supergroup (157-172): clone_channel
\* gives the new group, or None
CloneMainSupergroup(ok) ==
    LET main_group == IF ok THEN 1 ELSE 0
    IN  /\ s_pc = "s_idle"
        /\ IF Missing(main_group)
           THEN /\ SuperReturn(results)
                /\ UNCHANGED results
           ELSE /\ results' = [results EXCEPT !.main_group = main_group]
                /\ s_pc' = "s_find"
                /\ UNCHANGED s_ret
    /\ UNCHANGED <<related_channels, s_i, announcements, link_i, at_link,
                   early>>
    /\ UNCHANGED exceptSuper

\* cloner.py:133-146: _find_related_channels returns n dialogs (none when its
\* request fails, 273-275); with none, _clone_related_channels is not called
FindRelatedChannels(n) ==
    /\ s_pc = "s_find"
    /\ related_channels' = n
    /\ s_pc' = "s_clone"
    /\ UNCHANGED <<s_i, results, announcements, link_i, at_link, early,
                   s_ret>>
    /\ UNCHANGED exceptSuper

\* what clone_channel does for a related dialog: it gives the clone, gives
\* None, or an exception leaves the pass
CloneOutcomes == {"cloned", "none", "raise"}

\* variant: an exception in a pass ends the loop
NextCandidateUnlessRaised(i, outcome, n) ==
    IF outcome = "raise" THEN n ELSE i + 1

\* for i, channel_dialog in enumerate(related_channels) (cloner.py:184): the
\* body is inside try/except Exception (185, 209-212), so the loop goes on
\* to the next dialog whatever the pass did
NextCandidate(i, outcome, n) == i + 1

\* one pass of the loop of _clone_related_channels (cloner.py:184-212), or,
\* after the last pass, the call of _link_cloned_channels (148), which
\* returns at once if there is no channel to announce (316-317)
CloneRelatedChannel(outcome) ==
    /\ s_pc = "s_clone"
    /\ IF s_i < related_channels
       THEN /\ s_i' = NextCandidate(s_i, outcome, related_channels)
            /\ results' =
                  IF outcome = "cloned"
                  THEN [results EXCEPT !.channels = Append(@, s_i + 1)]
                  ELSE [results EXCEPT !.errors = @ + 1]
            /\ UNCHANGED <<s_pc, at_link, s_ret>>
       ELSE /\ outcome = "none"
            /\ at_link' = results
            /\ IF results.main_group = 0 \/ results.channels = <<>>
               THEN SuperReturn(results)
               ELSE s_pc' = "s_link" /\ UNCHANGED s_ret
            /\ UNCHANGED <<s_i, results>>
    /\ UNCHANGED <<related_channels, announcements, link_i, early>>
    /\ UNCHANGED exceptSuper

\* variant: a failed announcement ends the loop
NextChannelIfOk(i, ok, n) == IF ok THEN i + 1 ELSE n

\* for channel in results['channels'] (cloner.py:321-326): the exception of
\* a send is caught in _announce_linked_channel (348-349), and the loop goes
\* on to the next channel
NextChannel(i, ok, n) == i + 1

\* one pass of the loop of _link_cloned_channels with
\* _announce_linked_channel (cloner.py:321-350) and, after the last pass,
\* the return of results (150)
AnnounceLinkedChannel(ok) ==
    LET next == NextChannel(link_i, ok, Len(results.channels))
    IN  /\ s_pc = "s_link"
        /\ announcements' =
              Append(announcements,
                     [to |-> results.main_group,
                      channel |-> results.channels[link_i + 1],
                      ok |-> ok])
        /\ early' = (early \/ s_i < related_channels)
        /\ link_i' = next
        /\ IF next < Len(results.channels)
           THEN UNCHANGED <<s_pc, s_ret>>
           ELSE SuperReturn(results)
        /\ UNCHANGED <<related_channels, s_i, results, at_link>>
        /\ UNCHANGED exceptSuper

SuperNext ==
    \/ \E ok \in BOOLEAN : CloneMainSupergroup(ok)
    \/ \E n \in 0..MaxRelated : FindRelatedChannels(n)
    \/ \E outcome \in CloneOutcomes : CloneRelatedChannel(outcome)
    \/ \E ok \in BOOLEAN : AnnounceLinkedChannel(ok)

SuperSpec == SuperInit /\ [][SuperNext]_vars

\* the related dialogs an announcement was sent for, in the order sent
Announced == [k \in 1..Len(announcements) |-> announcements[k].channel]

\* the call went through the related dialogs and has returned
Linked == s_pc = "s_done" /\ results.main_group # 0

\* C30 as stated: no announcement is sent while a related dialog is still
\* to be cloned, and when the call has returned there is exactly one
\* announcement, into the main group, for every related dialog found, and
\* the results returned are those the cloning left.
C30_OneAnnouncementPerRelated ==
    /\ ~early
    /\ Linked
          => /\ Len(announcements) = related_channels
             /\ \A c \in 1..related_channels :
                   \E k \in 1..Len(announcements) :
                      announcements[k].channel = c
             /\ \A k \in 1..Len(announcements) :
                   announcements[k].to = results.main_group
             /\ s_ret = at_link

\* C30, amended: no announcement is sent while a related dialog is still to
\* be cloned; when the call has returned, the announcements sent are, in
\* order, one into the main group for every related dialog whose clone is
\* in results['channels'], whether or not an earlier one failed, and none
\* for a dialog whose clone failed; the results returned are those the
\* cloning left.
C30_OneAnnouncementPerClone ==
    /\ ~early
    /\ announcements # <<>> => s_i = related_channels
    /\ Linked
          => /\ Announced = results.channels
             /\ \A k \in 1..Len(announcements) :
                   announcements[k].to = results.main_group
             /\ s_ret = at_link
             /\ s_ret.errors = related_channels - Len(s_ret.channels)

C30_Witness ==
    /\ s_pc = "s_done"
    /\ related_channels = MaxRelated
    /\ results.channels = <<1, 3>>
    /\ results.errors = MaxRelated - 2
    /\ Len(announcements) = 2
    /\ ~announcements[1].ok
    /\ announcements[2].ok
    /\ s_ret = at_link

\* C31: the related dialogs are looked for and cloned only when the clone of
\* the main group has returned a group; when it returned None, the call
\* returns results with main_group None and no channel, no related dialog
\* was looked for or cloned, and no announcement was sent.
C31_RelatedOnlyAfterMain ==
    /\ (s_pc \in {"s_find", "s_clone", "s_link"} \/ s_i > 0
          \/ related_channels > 0 \/ announcements # <<>>)
          => results.main_group # 0
    /\ (s_pc = "s_done" /\ results.main_group = 0)
          => /\ s_ret = Results(0, <<>>, 0)
             /\ s_i = 0
             /\ related_channels = 0
             /\ announcements = <<>>

C31_Witness ==
    /\ s_pc = "s_done"
    /\ results.main_group = 0
    /\ s_ret = Results(0, <<>>, 0)
    /\ announcements = <<>>

\* C38: while and after _clone_related_channels goes through the related
\* dialogs, every dialog it is through has either its clone in
\* results['channels'], once, or one entry in results['errors'], so that the
\* two lengths add up to the number of dialogs it is through; and it goes
\* through all of them before the announcements and the return, whatever
\* failed on the way.
C38_EveryCandidateAccounted ==
    (results.main_group # 0 /\ s_pc \in {"s_clone", "s_link", "s_done"})
        => /\ Len(results.channels) + results.errors = s_i
           /\ \A k \in 1..Len(results.channels) :
                 /\ results.channels[k] \in 1..s_i
                 /\ \A l \in 1..Len(results.channels) :
                       k < l => results.channels[k] < results.channels[l]
           /\ s_pc \in {"s_link", "s_done"} => s_i = related_channels

C38_Witness ==
    /\ s_pc = "s_done"
    /\ related_channels = MaxRelated
    /\ results.errors = 2
    /\ Len(results.channels) = MaxRelated - 2
    /\ results.channels[1] = 2
    /\ s_ret = results

====
